---------------------------- MODULE Spec2Model ----------------------------
(***************************************************************************)
(* Model of the NLQ pipeline of trueprofit's backend: the SQL validator    *)
(* (internal/nlq/sql_validator.go), the self-correction controller, the    *)
(* result cache and the /ask handler.                                      *)
(*                                                                         *)
(* A SQL string is a sequence of lexemes [k, v]: k = "w" a word (letters,  *)
(* digits, underscore), "s" one whitespace character, "p" punctuation,     *)
(* "q" a quoted literal 'v'.  Text(s) renders the string the Go code sees. *)
(* The regular expressions of the validator are written as patterns over   *)
(* lexemes and matched by Match, leftmost first, as Go's regexp does.      *)
(***************************************************************************)
EXTENDS Integers, Sequences, FiniteSets, TLC

VARIABLES
    sql,        \* validator run: the candidate SQL (argument sql)
    opt,        \* validator run: the ValidateOptions
    verdict,    \* validator run: "" = nil error (accepted), else the reason
    vpc,        \* validator run: "input" before the call, "done" after it
    rq,         \* /ask: the state of each invocation of AskHandler.Handle
    cache,      \* /ask: the items of the NLQ cache table, by <<PK, SK>>
    prov,       \* /ask: history, the request that wrote each cache item
    served,     \* /ask: number of invocations that have returned
    now,        \* /ask and cache: Unix time, as PutCached reads it
    env,        \* /ask: the deployment the run is set in (schema texts,
                \*       callers and bodies that can arrive)
    cc,         \* cache: history of the PutCached and GetCached calls
    aq,         \* executor: the state of one RunAthenaQuery call
    fx          \* pure functions: the arguments and the value of one call

vvars == <<sql, opt, verdict, vpc>>
hvars == <<rq, cache, prov, served, now>>
xvars == <<env, cc, aq, fx>>
vars  == <<sql, opt, verdict, vpc, rq, cache, prov, served, now,
           env, cc, aq, fx>>

----------------------------------------------------------------------------
(* Lexemes and strings *)

W(s) == [k |-> "w", v |-> s]
P(s) == [k |-> "p", v |-> s]
Q(s) == [k |-> "q", v |-> s]
SP   == [k |-> "s", v |-> " "]
TAB  == [k |-> "s", v |-> "\t"]

IsWS(x)   == x.k = "s"
IsWord(x) == x.k = "w"

\* The characters of one lexeme.
LexText(x) == IF x.k = "q" THEN "'" \o x.v \o "'" ELSE x.v

RECURSIVE Text(_)
Text(s) == IF s = <<>> THEN "" ELSE LexText(Head(s)) \o Text(Tail(s))

\* strings.ToLower on the strings of the model's alphabet.
ToLower(s) ==
    CASE s = "SELECT"          -> "select"
      [] s = "WITH"            -> "with"
      [] s = "FROM"            -> "from"
      [] s = "WHERE"           -> "where"
      [] s = "AND"             -> "and"
      [] s = "OR"              -> "or"
      [] s = "DT"              -> "dt"
      [] s = "SHOP_ID"         -> "shop_id"
      [] s = "IN"              -> "in"
      [] s = "BETWEEN"         -> "between"
      [] s = "DATE"            -> "date"
      [] s = "DROP"            -> "drop"
      [] s = "DELETE"          -> "delete"
      [] s = "A.myshopify.com" -> "a.myshopify.com"
      [] s = "B.myshopify.com" -> "b.myshopify.com"
      [] s = "C.myshopify.com" -> "c.myshopify.com"
      [] s = " A.myshopify.com " -> " a.myshopify.com "
      [] s = "COALESCE"        -> "coalesce"
      [] s = "SUM"             -> "sum"
      [] s = "AS"              -> "as"
      [] s = "Total"           -> "total"
      [] s = "Revenue?"        -> "revenue?"
      [] s = "REVENUE?"        -> "revenue?"
      [] OTHER                 -> s

\* strings.TrimSpace on the strings of the model's alphabet.
TrimSpace(s) ==
    CASE s = " a.myshopify.com " -> "a.myshopify.com"
      [] s = " A.myshopify.com " -> "A.myshopify.com"
      [] s = " "  -> ""
      [] OTHER -> s

ToLowerSeq(s) == [i \in 1..Len(s) |-> [k |-> s[i].k, v |-> ToLower(s[i].v)]]

RECURSIVE TrimLeft(_)
TrimLeft(s) == IF s # <<>> /\ IsWS(Head(s)) THEN TrimLeft(Tail(s)) ELSE s

RECURSIVE TrimRight(_)
TrimRight(s) ==
    IF s # <<>> /\ IsWS(s[Len(s)]) THEN TrimRight(SubSeq(s, 1, Len(s) - 1)) ELSE s

\* strings.TrimSpace on a SQL string.
TrimSpaceSeq(s) == TrimRight(TrimLeft(s))

\* strings.Contains(s, p) for a punctuation p.
ContainsPunct(s, p) == \E i \in 1..Len(s) : s[i] = P(p)

\* strings.Contains(s, kw + " "): the characters of kw directly followed by
\* one space character (a tab or the end of the string is no match).
ContainsKwSpace(s, kw) ==
    \E i \in 1..(Len(s) - 1) : IsWord(s[i]) /\ s[i].v = kw /\ s[i + 1] = SP

\* strings.HasPrefix(s, p) for a word p.
HasPrefixWord(s, p) == s # <<>> /\ IsWord(s[1]) /\ s[1].v = p


----------------------------------------------------------------------------
(* Calendar dates: time.Parse("2006-01-02", s), Time.AddDate, Time.Before *)

Years == 2025..2026

IsLeap(y) == (y % 4 = 0 /\ y % 100 # 0) \/ y % 400 = 0

DaysIn(y, m) ==
    CASE m \in {4, 6, 9, 11} -> 30
      [] m = 2               -> IF IsLeap(y) THEN 29 ELSE 28
      [] OTHER               -> 31

Pad2(n) == IF n < 10 THEN "0" \o ToString(n) ELSE ToString(n)

\* Time.Format("2006-01-02") of the date <<y, m, d>>.
FormatISO(t) == ToString(t[1]) \o "-" \o Pad2(t[2]) \o "-" \o Pad2(t[3])

\* The strings matching \d{4}-\d{2}-\d{2} in the model's alphabet: every
\* well-formed date of Years, and day numbers a month does not have.
ShapeDates == {t \in Years \X (1..12) \X (1..31) : TRUE}
ISO == [t \in ShapeDates |-> FormatISO(t)]
ShapeStrings == {ISO[t] : t \in ShapeDates}
IsDateShape(s) == s \in ShapeStrings

IsValidDate(t) == t[2] \in 1..12 /\ t[3] \in 1..DaysIn(t[1], t[2])

\* time.Parse("2006-01-02", s): [ok, t]; a day the month does not have is
\* an error ("day out of range"), as is any string not of the layout.
NoDate == <<0, 0, 0>>
FromISO == [s \in ShapeStrings |-> CHOOSE t \in ShapeDates : ISO[t] = s]
ParseDate(s) ==
    IF IsDateShape(s) /\ IsValidDate(FromISO[s])
    THEN [ok |-> TRUE, t |-> FromISO[s]]
    ELSE [ok |-> FALSE, t |-> NoDate]

\* The last day of the month before the month of t.
EndOfPrevMonth(t) ==
    IF t[2] > 1 THEN <<t[1], t[2] - 1, DaysIn(t[1], t[2] - 1)>>
    ELSE <<t[1] - 1, 12, 31>>

\* t.AddDate(0, 0, -n) for n >= 0: n days back, a month at a time.
RECURSIVE SubDays(_, _)
SubDays(t, n) ==
    IF n < t[3] THEN <<t[1], t[2], t[3] - n>>
    ELSE SubDays(EndOfPrevMonth(t), n - t[3])

\* a.Before(b)
Before(a, b) ==
    \/ a[1] < b[1]
    \/ a[1] = b[1] /\ a[2] < b[2]
    \/ a[1] = b[1] /\ a[2] = b[2] /\ a[3] < b[3]

----------------------------------------------------------------------------
(* Regular expressions over lexemes *)

\* Pattern elements.
WB(w)     == [t |-> "wb",   x |-> {w}, sub |-> <<>>]   \* \bw\b
Lit(w)    == [t |-> "lit",  x |-> {w}, sub |-> <<>>]   \* the characters w
AnyOf(S)  == [t |-> "lit",  x |-> S,   sub |-> <<>>]   \* (a|b)
WS0       == [t |-> "ws0",  x |-> {},  sub |-> <<>>]   \* \s*
WS1       == [t |-> "ws1",  x |-> {},  sub |-> <<>>]   \* \s+
Opt(p)    == [t |-> "opt",  x |-> {},  sub |-> p]      \* (p)?
DateQ     == [t |-> "date", x |-> {},  sub |-> <<>>]   \* '(\d{4}-\d{2}-\d{2})'
AnyQ      == [t |-> "anyq", x |-> {},  sub |-> <<>>]   \* '([^']*)'
Parens    == [t |-> "par",  x |-> {},  sub |-> <<>>]   \* \(([^)]*)\)

NoMatch == [ok |-> FALSE, alt |-> 0, start |-> 0, end |-> 0,
            strs |-> <<>>, seg |-> <<>>]

RECURSIVE SkipWS(_, _)
SkipWS(s, i) == IF i <= Len(s) /\ IsWS(s[i]) THEN SkipWS(s, i + 1) ELSE i

\* The first ")" at or after i, or Len(s) + 1.
RECURSIVE FindClose(_, _)
FindClose(s, i) ==
    IF i > Len(s) \/ s[i] = P(")") THEN i ELSE FindClose(s, i + 1)

IsBoundary(s, i) ==
    /\ (i = 1 \/ ~IsWord(s[i - 1]))
    /\ (i = Len(s) \/ ~IsWord(s[i + 1]))

\* Match pattern pat against s starting exactly at lexeme i.  strs are
\* the captured literals in order, seg the lexemes captured inside ( ).
RECURSIVE MatchAt(_, _, _)
MatchAt(pat, s, i) ==
    IF pat = <<>>
    THEN [ok |-> TRUE, alt |-> 0, start |-> i, end |-> i,
          strs |-> <<>>, seg |-> <<>>]
    ELSE
      LET e    == Head(pat)
          rest == Tail(pat)
          Then(j, str, sg) ==
              LET r == MatchAt(rest, s, j)
              IN  IF r.ok
                  THEN [ok |-> TRUE, alt |-> 0, start |-> i, end |-> r.end,
                        strs |-> str \o r.strs, seg |-> sg \o r.seg]
                  ELSE NoMatch
          here == i <= Len(s)
      IN  CASE e.t = "ws0"  -> Then(SkipWS(s, i), <<>>, <<>>)
            [] e.t = "ws1"  -> IF here /\ IsWS(s[i])
                               THEN Then(SkipWS(s, i), <<>>, <<>>) ELSE NoMatch
            [] e.t = "wb"   -> IF here /\ IsWord(s[i]) /\ s[i].v \in e.x
                                    /\ IsBoundary(s, i)
                               THEN Then(i + 1, <<>>, <<>>) ELSE NoMatch
            [] e.t = "lit"  -> IF here /\ s[i].k \in {"w", "p"} /\ s[i].v \in e.x
                               THEN Then(i + 1, <<>>, <<>>) ELSE NoMatch
            [] e.t = "date" -> IF here /\ s[i].k = "q" /\ IsDateShape(s[i].v)
                               THEN Then(i + 1, <<s[i].v>>, <<>>) ELSE NoMatch
            [] e.t = "anyq" -> IF here /\ s[i].k = "q"
                               THEN Then(i + 1, <<s[i].v>>, <<>>) ELSE NoMatch
            [] e.t = "par"  -> IF here /\ s[i] = P("(") /\ FindClose(s, i + 1) <= Len(s)
                               THEN LET c == FindClose(s, i + 1)
                                    IN  Then(c + 1, <<>>, SubSeq(s, i + 1, c - 1))
                               ELSE NoMatch
            [] e.t = "opt"  -> LET r == MatchAt(e.sub \o rest, s, i)
                               IN  IF r.ok THEN r ELSE MatchAt(rest, s, i)

\* Regexp.FindStringSubmatch / one step of FindAllStringSubmatch: the
\* leftmost match of one of the alternatives alts (in order of preference)
\* that starts at or after lexeme i; alt is the alternative that matched.
RECURSIVE FindFrom(_, _, _)
FindFrom(alts, s, i) ==
    IF i > Len(s) THEN NoMatch
    ELSE IF \E a \in 1..Len(alts) : MatchAt(alts[a], s, i).ok
    THEN LET a == CHOOSE a \in 1..Len(alts) :
                     /\ MatchAt(alts[a], s, i).ok
                     /\ \A b \in 1..(a - 1) : ~MatchAt(alts[b], s, i).ok
         IN  [MatchAt(alts[a], s, i) EXCEPT !.start = i, !.alt = a]
    ELSE FindFrom(alts, s, i + 1)

\* Regexp.MatchString
MatchString(alts, s) == FindFrom(alts, s, 1).ok

\* Regexp.FindAllStringSubmatch(s, -1): the successive non-overlapping matches.
RECURSIVE FindAllFrom(_, _, _)
FindAllFrom(alts, s, i) ==
    LET m == FindFrom(alts, s, i)
    IN  IF ~m.ok THEN <<>> ELSE <<m>> \o FindAllFrom(alts, s, m.end)

FindAll(alts, s) == FindAllFrom(alts, s, 1)

----------------------------------------------------------------------------
(* internal/nlq/sql_validator.go *)

\* \bdt\b\s+between\s+(date\s+)?'(\d{4}-\d{2}-\d{2})'\s+and\s+(date\s+)?'(\d{4}-\d{2}-\d{2})'
betweenRe ==
    << <<WB("dt"), WS1, Lit("between"), WS1, Opt(<<Lit("date"), WS1>>), DateQ,
         WS1, Lit("and"), WS1, Opt(<<Lit("date"), WS1>>), DateQ>> >>

\* \bdt\b\s*(>=|>)\s*(date\s+)?'(\d{4}-\d{2}-\d{2})'
geRe ==
    << <<WB("dt"), WS0, AnyOf({">=", ">"}), WS0, Opt(<<Lit("date"), WS1>>), DateQ>> >>

\* \bdt\b
dtRe == << <<WB("dt")>> >>

\* \bshop_id\b
shopIdRe == << <<WB("shop_id")>> >>

\* \bshop_id\b\s*(=|in)\s*\(([^)]*)\)|\bshop_id\b\s*=\s*'([^']*)'
shopRe ==
    << <<WB("shop_id"), WS0, AnyOf({"=", "in"}), WS0, Parens>>,
       <<WB("shop_id"), WS0, Lit("="), WS0, AnyQ>> >>

\* '([^']*)'
inValRe == << <<AnyQ>> >>

DaysText(n) == ToString(n)

LookbackError(start, maxDays) ==
    "dt lookback too large: start=" \o start \o " older than "
        \o DaysText(maxDays) \o " days"

\* CheckStart without the lookback comparison: any well-formed start passes.
CheckStart_NoLookback(start, minAllowed, maxDays, what) ==
    IF ~ParseDate(start).ok THEN what \o start ELSE ""

\* CheckStart with the comparison off by one day: a start equal to the
\* earliest allowed date is rejected too.
CheckStart_RejectsBoundary(start, minAllowed, maxDays, what) ==
    LET startDate == ParseDate(start)
    IN  IF ~startDate.ok THEN what \o start
        ELSE IF Before(startDate.t, minAllowed) \/ startDate.t = minAllowed
        THEN LookbackError(start, maxDays)
        ELSE ""

\* The date check of one matched lower bound (lines 102-109 and 116-123).
CheckStart(start, minAllowed, maxDays, what) ==
    LET startDate == ParseDate(start)
    IN  IF ~startDate.ok THEN what \o start
        ELSE IF Before(startDate.t, minAllowed) THEN LookbackError(start, maxDays)
        ELSE ""

\* requireBoundedDTPredicate consulting the dt >= / dt > form before the
\* dt BETWEEN form.
requireBoundedDTPredicate_GeFirst(lowSQL, todayISO, maxDays) ==
    LET today == ParseDate(todayISO)
    IN  IF ~today.ok THEN "invalid TodayISO: " \o todayISO
        ELSE
          LET minAllowed == SubDays(today.t, maxDays)
              mb == FindFrom(betweenRe, lowSQL, 1)
              mg == FindFrom(geRe, lowSQL, 1)
          IN  IF mg.ok
              THEN CheckStart(mg.strs[1], minAllowed, maxDays,
                              "dt lower bound invalid: ")
              ELSE IF mb.ok
              THEN CheckStart(mb.strs[1], minAllowed, maxDays,
                              "dt BETWEEN has invalid start date: ")
              ELSE IF MatchString(dtRe, lowSQL)
              THEN "dt filter must include a lower bound (dt >= ... or dt BETWEEN ...)"
              ELSE "missing required dt filter"

requireBoundedDTPredicate(lowSQL, todayISO, maxDays) ==
    LET today == ParseDate(todayISO)
    IN  IF ~today.ok THEN "invalid TodayISO: " \o todayISO
        ELSE
          LET minAllowed == SubDays(today.t, maxDays)
              mb == FindFrom(betweenRe, lowSQL, 1)
              mg == FindFrom(geRe, lowSQL, 1)
          IN  IF mb.ok
              THEN CheckStart(mb.strs[1], minAllowed, maxDays,
                              "dt BETWEEN has invalid start date: ")
              ELSE IF mg.ok
              THEN CheckStart(mg.strs[1], minAllowed, maxDays,
                              "dt lower bound invalid: ")
              ELSE IF MatchString(dtRe, lowSQL)
              THEN "dt filter must include a lower bound (dt >= ... or dt BETWEEN ...)"
              ELSE "missing required dt filter"

\* The quoted values of an IN list, in order (inValRe.FindAllStringSubmatch).
InValues(seg) ==
    LET ms == FindAll(inValRe, seg) IN [i \in 1..Len(ms) |-> ms[i].strs[1]]

\* m[2] and m[3] of one match of shopRe.
Group2(m) == IF m.alt = 1 THEN m.seg ELSE <<>>
Group3(m) == IF m.alt = 2 THEN m.strs[1] ELSE ""

\* The loop over the matches (lines 158-183): the first match whose list
\* or value is not blank decides.
RECURSIVE CheckShopMatches(_, _)
CheckShopMatches(matches, allow) ==
    IF matches = <<>> THEN "unable to validate shop_id predicate"
    ELSE
      LET m == Head(matches)
      IN  IF TrimSpaceSeq(Group2(m)) # <<>>
          THEN LET vals == InValues(Group2(m))
               IN  IF vals = <<>>
                   THEN "shop_id IN list must contain quoted values"
                   ELSE IF \E i \in 1..Len(vals) :
                               ToLower(TrimSpace(vals[i])) \notin allow
                   THEN LET i == CHOOSE i \in 1..Len(vals) :
                                   /\ ToLower(TrimSpace(vals[i])) \notin allow
                                   /\ \A j \in 1..(i - 1) :
                                        ToLower(TrimSpace(vals[j])) \in allow
                        IN  "shop_id value not allowed: " \o vals[i]
                   ELSE ""
          ELSE IF TrimSpace(Group3(m)) # ""
          THEN IF ToLower(TrimSpace(Group3(m))) \notin allow
               THEN "shop_id value not allowed: " \o Group3(m)
               ELSE ""
          ELSE CheckShopMatches(Tail(matches), allow)

requireAllowedShopFilter(lowSQL, allowed) ==
    IF ~MatchString(shopIdRe, lowSQL) THEN "missing required shop_id filter"
    ELSE
      LET allow   == {ToLower(TrimSpace(allowed[i])) : i \in 1..Len(allowed)}
          matches == FindAll(shopRe, lowSQL)
      IN  IF matches = <<>> THEN "shop_id filter must be equality or IN list"
          ELSE CheckShopMatches(matches, allow)

block ==
    <<"insert", "update", "delete", "merge", "drop", "alter", "create",
      "truncate", "grant", "revoke", "call", "execute", "prepare", "deallocate">>

DefaultMaxDays == 90

\* ValidateSQL(sql, opt): "" is the nil error.
ValidateSQL(q, o) ==
    LET s   == TrimSpaceSeq(q)
        low == ToLowerSeq(s)
        maxDays == IF o.MaxDaysLookback <= 0 THEN DefaultMaxDays
                   ELSE o.MaxDaysLookback
        dtErr == IF o.RequireDTFilter
                 THEN requireBoundedDTPredicate(low, o.TodayISO, maxDays)
                 ELSE ""
    IN  IF s = <<>> THEN "empty sql"
        ELSE IF ContainsPunct(low, ";") THEN "semicolon not allowed"
        ELSE IF ContainsPunct(low, "--") \/ ContainsPunct(low, "/*")
                  \/ ContainsPunct(low, "*/")
        THEN "comments not allowed"
        ELSE IF ~(HasPrefixWord(TrimSpaceSeq(low), "select")
                    \/ HasPrefixWord(TrimSpaceSeq(low), "with"))
        THEN "only SELECT queries are allowed"
        ELSE IF \E i \in 1..Len(block) : ContainsKwSpace(low, block[i])
        THEN "disallowed keyword: "
               \o block[CHOOSE i \in 1..Len(block) :
                          /\ ContainsKwSpace(low, block[i])
                          /\ \A j \in 1..(i - 1) : ~ContainsKwSpace(low, block[j])]
        ELSE IF dtErr # "" THEN dtErr
        ELSE IF Len(o.AllowedShopIDs) > 0
        THEN requireAllowedShopFilter(low, o.AllowedShopIDs)
        ELSE IF ~MatchString(shopIdRe, low) THEN "missing required shop_id filter"
        ELSE ""

----------------------------------------------------------------------------
(* Candidate SQL strings and options for the validator runs *)

ShopA == "a.myshopify.com"
ShopB == "b.myshopify.com"
ShopC == "c.myshopify.com"

Today1 == "2026-01-19"

\* Predicates a model reply may contain.
GeDate(d)  == <<W("dt"), SP, P(">="), SP, W("date"), SP, Q(d)>>
GtPlain(d) == <<W("dt"), P(">"), Q(d)>>
LeDate(d)  == <<W("dt"), SP, P("<="), SP, W("date"), SP, Q(d)>>
Between(d, e) ==
    <<W("dt"), SP, W("between"), SP, W("date"), SP, Q(d), SP, W("and"), SP,
      W("date"), SP, Q(e)>>
ShopEq(x)  == <<W("shop_id"), SP, P("="), SP, Q(x)>>
ShopIn(xs) ==
    <<W("shop_id"), SP, W("in"), SP, P("(")>>
    \o [i \in 1..(2 * Len(xs) - 1) |->
          IF i % 2 = 1 THEN Q(xs[(i + 1) \div 2]) ELSE P(",")]
    \o <<P(")")>>
ShopInUpper(x) == <<W("SHOP_ID"), SP, W("IN"), SP, P("("), Q(x), P(")")>>

DtPreds ==
    { GeDate("2025-10-21"), GeDate("2025-10-20"), GeDate("2026-01-18"),
      GeDate("2026-01-17"), GeDate("2026-02-30"), GtPlain("2026-01-18"),
      LeDate("2026-01-19"), Between("2025-10-21", "2026-01-19"),
      Between("2025-10-20", "2026-01-19") }

ShopPreds ==
    { ShopEq(ShopA), ShopEq(ShopC), ShopIn(<<ShopA, ShopB>>),
      ShopIn(<<ShopA, ShopC>>), ShopInUpper("A.myshopify.com") }

Preds == DtPreds \cup ShopPreds

\* The longest WHERE clause of a candidate, in predicates.
MaxPreds == 2

IsShopPred(p) == p[1].v \in {"shop_id", "SHOP_ID"}

RECURSIVE JoinPreds(_)
JoinPreds(ps) ==
    IF Len(ps) = 0 THEN <<>>
    ELSE IF Len(ps) = 1 THEN ps[1]
    ELSE ps[1]
         \o <<SP, W(IF IsShopPred(ps[1]) /\ IsShopPred(ps[2]) THEN "or" ELSE "and"), SP>>
         \o JoinPreds(Tail(ps))

PredLists == UNION {[1..n -> Preds] : n \in 1..MaxPreds}

\* What precedes and follows the WHERE clause: <<head, tail>>.
SelectHead ==
    <<W("select"), SP, P("*"), SP, W("from"), SP, W("daily_metrics"), SP,
      W("where"), SP>>

Frames ==
    { <<SelectHead, <<>> >>,
      <<SelectHead, <<SP>> >>,
      <<SelectHead, <<P(";")>> >>,
      <<SelectHead, <<SP, P("--"), SP, W("x")>> >>,
      <<SelectHead, <<SP, W("union"), SP, W("drop"), SP, W("table"), SP, W("t")>> >>,
      <<SelectHead, <<SP, W("union"), SP, W("DROP"), TAB, W("table"), SP, W("t")>> >>,
      <<SelectHead, <<SP, W("union"), SP, P("("), W("delete"), P(")")>> >>,
      <<SelectHead, <<SP, W("union"), SP, W("drop")>> >>,
      << <<TAB, W("SELECT"), SP, P("*"), SP, W("FROM"), SP, W("daily_metrics"), SP,
           W("WHERE"), SP>>, <<>> >>,
      << <<W("describe"), SP, W("daily_metrics"), SP, W("where"), SP>>, <<>> >>,
      <<SelectHead \o GeDate("2025-10-21") \o <<SP, W("and"), SP>>, <<>> >> }

Candidates == {f[1] \o JoinPreds(ps) \o f[2] : f \in Frames, ps \in PredLists}

AllowLists == { <<ShopA, ShopB>>, <<"A.myshopify.com">>, <<>> }

Options ==
    [AllowedShopIDs : AllowLists, RequireDTFilter : BOOLEAN,
     MaxDaysLookback : {1, DefaultMaxDays}, TodayISO : {Today1}]

----------------------------------------------------------------------------
(* A validator run: ValidateSQL applied to a candidate *)

VInit ==
    /\ sql \in Candidates
    /\ opt \in Options
    /\ verdict = ""
    /\ vpc = "input"
    /\ rq = <<>> /\ cache = <<>> /\ prov = <<>>
    /\ served = 0 /\ now = 0
    /\ env = <<>> /\ cc = <<>> /\ aq = <<>> /\ fx = <<>>

Validate ==
    /\ vpc = "input"
    /\ verdict' = ValidateSQL(sql, opt)
    /\ vpc' = "done"
    /\ UNCHANGED <<sql, opt>>
    /\ UNCHANGED hvars
    /\ UNCHANGED xvars

VNext == Validate

SpecValidate == VInit /\ [][VNext]_vvars

Accepted == vpc = "done" /\ verdict = ""

----------------------------------------------------------------------------
(* Properties of the validator *)

\* The SQL as the checks see it: trimmed and lowercased.
LowSQL == ToLowerSeq(TrimSpaceSeq(sql))

\* Every literal that a shop_id = 'X' or shop_id IN ('X', ...) predicate of
\* s compares shop_id to, over all such predicates of s.
TenantLiterals(s) ==
    LET ms == FindAll(shopRe, s)
    IN  UNION { IF ms[i].alt = 1
                THEN {InValues(ms[i].seg)[j] : j \in 1..Len(InValues(ms[i].seg))}
                ELSE {ms[i].strs[1]} : i \in 1..Len(ms) }

AllowedLower == {ToLower(opt.AllowedShopIDs[i]) : i \in 1..Len(opt.AllowedShopIDs)}

\* C1: if ValidateSQL accepts s under a non-empty allowlist A, every literal
\* of every shop_id predicate of s is in A, compared case-insensitively.
C1_TenantLiteralsAllowed ==
    (Accepted /\ Len(opt.AllowedShopIDs) > 0)
        => \A x \in TenantLiterals(LowSQL) : ToLower(x) \in AllowedLower

\* The start dates of every dt BETWEEN / dt >= / dt > form of s.
LowerBoundStarts(s) ==
    LET mb == FindAll(betweenRe, s)
        mg == FindAll(geRe, s)
    IN  {mb[i].strs[1] : i \in 1..Len(mb)} \cup {mg[i].strs[1] : i \in 1..Len(mg)}

MinAllowed == SubDays(ParseDate(opt.TodayISO).t, opt.MaxDaysLookback)

\* C2: a SQL accepted with require_partition_filter = true (max_days in
\* 1..90) contains a dt BETWEEN / dt >= / dt > form whose start date is not
\* earlier than today - max_days.
C2_BoundedLookback ==
    (Accepted /\ opt.RequireDTFilter /\ opt.MaxDaysLookback \in 1..DefaultMaxDays)
        => \E d \in LowerBoundStarts(LowSQL) :
              ParseDate(d).ok /\ ~Before(ParseDate(d).t, MinAllowed)

\* C2 witness: a SQL accepted under the partition check whose lower bound
\* is exactly today - max_days.
C2_Witness ==
    /\ Accepted /\ opt.RequireDTFilter
    /\ \E d \in LowerBoundStarts(LowSQL) : ParseDate(d).ok /\ ParseDate(d).t = MinAllowed

BlockSet == {block[i] : i \in 1..Len(block)}

\* A forbidden keyword as a whole word of s.
HasForbiddenWord(s) ==
    \E i \in 1..Len(s) : IsWord(s[i]) /\ s[i].v \in BlockSet /\ IsBoundary(s, i)

\* C3: an accepted SQL begins with select or with, contains no ; -- /* */
\* and no forbidden keyword as a whole word.
C3_ReadOnlySingleStatement ==
    Accepted =>
        /\ HasPrefixWord(LowSQL, "select") \/ HasPrefixWord(LowSQL, "with")
        /\ \A p \in {";", "--", "/*", "*/"} : ~ContainsPunct(LowSQL, p)
        /\ ~HasForbiddenWord(LowSQL)

----------------------------------------------------------------------------
(* Strings and string lists of the /ask handler *)

RECURSIVE JoinStr(_, _)
\* strings.Join(xs, sep)
JoinStr(xs, sep) ==
    IF xs = <<>> THEN ""
    ELSE IF Len(xs) = 1 THEN xs[1]
    ELSE xs[1] \o sep \o JoinStr(Tail(xs), sep)

RECURSIVE FieldsAcc(_, _)
\* strings.Fields: the maximal runs of non-whitespace characters; word is
\* the run being read.
FieldsAcc(s, word) ==
    IF s = <<>> THEN (IF word = "" THEN <<>> ELSE <<word>>)
    ELSE IF IsWS(Head(s))
         THEN (IF word = "" THEN <<>> ELSE <<word>>) \o FieldsAcc(Tail(s), "")
         ELSE FieldsAcc(Tail(s), word \o LexText(Head(s)))

Fields(s) == FieldsAcc(s, "")

NormalizeQuestion_KeepCase(q) == JoinStr(Fields(TrimSpaceSeq(q)), " ")

\* NormalizeQuestion: lower-case, trim, collapse whitespace runs to one space.
NormalizeQuestion(q) == JoinStr(Fields(ToLowerSeq(TrimSpaceSeq(q))), " ")

Range(xs) == {xs[i] : i \in DOMAIN xs}

RECURSIVE uniqueAcc(_, _)
uniqueAcc(in, seen) ==
    IF in = <<>> THEN <<>>
    ELSE LET v == Head(in)
             k == ToLower(TrimSpace(v))
         IN  IF k = "" \/ k \in seen THEN uniqueAcc(Tail(in), seen)
             ELSE <<v>> \o uniqueAcc(Tail(in), seen \cup {k})

\* uniqueStrings: first occurrence wins, compared trimmed and lower-cased.
uniqueStrings(in) == uniqueAcc(in, {})

RECURSIVE TrimNonEmpty(_)
\* The loop of GetAllowedShopsByUserSub over the items of the query.
TrimNonEmpty(items) ==
    IF items = <<>> THEN <<>>
    ELSE LET val == TrimSpace(Head(items))
         IN  (IF val # "" THEN <<val>> ELSE <<>>) \o TrimNonEmpty(Tail(items))

\* GetAllowedShopsByUserSub, given the items the index query returned.
GetAllowedShopsByUserSub(items) == uniqueStrings(TrimNonEmpty(items))

RECURSIVE intersectAcc(_, _, _)
intersectAcc(requested, allowedSet, seen) ==
    IF requested = <<>> THEN <<>>
    ELSE LET r2 == TrimSpace(Head(requested))
             k  == ToLower(r2)
         IN  IF r2 = "" \/ k \notin allowedSet \/ k \in seen
             THEN intersectAcc(Tail(requested), allowedSet, seen)
             ELSE <<r2>> \o intersectAcc(Tail(requested), allowedSet,
                                         seen \cup {k})

RECURSIVE intersectAcc_NoSeen(_, _)
intersectAcc_NoSeen(requested, allowedSet) ==
    IF requested = <<>> THEN <<>>
    ELSE LET r2 == TrimSpace(Head(requested))
         IN  IF r2 = "" \/ ToLower(r2) \notin allowedSet
             THEN intersectAcc_NoSeen(Tail(requested), allowedSet)
             ELSE <<r2>> \o intersectAcc_NoSeen(Tail(requested), allowedSet)

intersectAllowed_NoSeen(requested, allowed) ==
    IF Len(requested) = 0 THEN allowed
    ELSE intersectAcc_NoSeen(requested,
                      {ToLower(TrimSpace(allowed[i])) : i \in DOMAIN allowed})

\* intersectAllowed taking the request at its word.
intersectAllowed_TrustsRequest(requested, allowed) ==
    IF Len(requested) = 0 THEN allowed ELSE requested

\* intersectAllowed: the requested shops that are allowed, in request order
\* and request spelling; the whole allowlist when nothing is requested.
intersectAllowed(requested, allowed) ==
    IF Len(requested) = 0 THEN allowed
    ELSE intersectAcc(requested,
                      {ToLower(TrimSpace(allowed[i])) : i \in DOMAIN allowed},
                      {})

----------------------------------------------------------------------------
(* The NLQ cache: key derivation and the JSON payload *)

\* ShopsKey: the shops joined by "," in the order given (the copy is not
\* sorted).
ShopsKey(shops) == JoinStr(shops, ",")

\* HashKeyMaterial: hex SHA-256.  The digest is written as its preimage in
\* a wrapper, i.e. the hash is taken to be collision free.
HashKeyMaterial(s) == "sha256(" \o s \o ")"

SchemaHash(schemaText) == HashKeyMaterial(schemaText)

MakeCachePK_Shared(userSub) == "USER#"

MakeCachePK(userSub) == "USER#" \o userSub

KeyMaterial_NoSchema(k) ==
    JoinStr(<< "shops=" \o ShopsKey(k.Shops),
               "today=" \o k.TodayISO,
               "maxdays=" \o ToString(k.MaxDays),
               "q=" \o NormalizeQuestion(k.Question) >>, "|")

\* The string MakeCacheSK hashes.  Shop ids are Shopify domains and hold
\* neither "," nor "|".
KeyMaterial(k) ==
    JoinStr(<< "shops=" \o ShopsKey(k.Shops),
               "today=" \o k.TodayISO,
               "maxdays=" \o ToString(k.MaxDays),
               "schema=" \o k.SchemaHash,
               "q=" \o NormalizeQuestion(k.Question) >>, "|")

MakeCacheSK(k) == "NLQ#" \o HashKeyMaterial(KeyMaterial(k))

\* A Go value of a result cell: [ty, txt] with ty one of "int64",
\* "float64", "string", "nil" and txt its decimal or character text.
GoInt(txt)   == [ty |-> "int64",   txt |-> txt]
GoFloat(txt) == [ty |-> "float64", txt |-> txt]
GoStr(txt)   == [ty |-> "string",  txt |-> txt]
GoNil        == [ty |-> "nil",     txt |-> ""]

\* strconv.ParseFloat followed by formatting: the decimal text of the
\* float64 nearest to the number written txt.  Integers above 2^53 are not
\* all representable; ties go to the even mantissa.
NearestFloat64(txt) ==
    CASE txt = "9007199254740993" -> "9007199254740992"
      [] txt = "9007199254740995" -> "9007199254740996"
      [] OTHER -> txt

\* json.Marshal of a cell: a JSON number, string or null.
MarshalValue(v) ==
    CASE v.ty \in {"int64", "float64"} -> [j |-> "number", txt |-> v.txt]
      [] v.ty = "string"               -> [j |-> "string", txt |-> v.txt]
      [] OTHER                         -> [j |-> "null",   txt |-> ""]

\* json.Unmarshal of a JSON value into an `any`: every number is a float64.
UnmarshalAny(j) ==
    CASE j.j = "number" -> GoFloat(NearestFloat64(j.txt))
      [] j.j = "string" -> GoStr(j.txt)
      [] OTHER          -> GoNil

MarshalRows(rows) ==
    [i \in DOMAIN rows |-> [c \in DOMAIN rows[i] |-> MarshalValue(rows[i][c])]]

UnmarshalRows(rows) ==
    [i \in DOMAIN rows |-> [c \in DOMAIN rows[i] |-> UnmarshalAny(rows[i][c])]]

\* json.Marshal(CachedResponse): the Payload attribute.
MarshalCached(resp) == [resp EXCEPT !.Rows = MarshalRows(resp.Rows)]

\* json.Unmarshal(Payload, &CachedResponse)
UnmarshalCached(payload) == [payload EXCEPT !.Rows = UnmarshalRows(payload.Rows)]

----------------------------------------------------------------------------
(* The world of the /ask handler: callers, request bodies, the replies of   *)
(* the model and the outcomes of the executor                               *)

Sub1 == "u1"
Sub2 == "u2"
Sub3 == "u3"

\* The sub claim of the JWT; "" is a request without one.
Subs == {Sub1, Sub2, Sub3, ""}

\* The Shop attributes the GSI_UserSub query returns for a caller.  u1 and
\* u2 own the same two shops; u2's items are padded and repeated.
ShopItems(sub) ==
    CASE sub = Sub1 -> <<ShopA, ShopB>>
      [] sub = Sub2 -> <<" a.myshopify.com ", ShopB, "A.myshopify.com">>
      [] OTHER      -> <<>>

\* The shops whose connection to their users may be withdrawn during a run.
Revocable == {ShopB}

\* The items of a caller once the shops in revoked are withdrawn.
ItemsAfter(items, revoked) ==
    SelectSeq(items, LAMBDA x : TrimSpace(x) \notin revoked)

\* The items the query returns now: fx.revoked holds the withdrawn shops in
\* the runs that withdraw any.
ShopItemsNow(sub) ==
    IF "revoked" \in DOMAIN fx THEN ItemsAfter(ShopItems(sub), fx.revoked)
    ELSE ShopItems(sub)

QTotal      == <<W("Total"), SP, W("Revenue?")>>
QTotalLoose == <<SP, W("Total"), SP, SP, W("REVENUE?"), SP>>
QBlank      == <<SP>>

AskRequest(q, shops) == [Malformed |-> FALSE, Question |-> q, ShopIDs |-> shops]

Bodies ==
    { AskRequest(QTotal, <<>>),
      AskRequest(QTotalLoose, <<ShopA, ShopB>>),
      AskRequest(QTotal, <<ShopB, ShopA>>),
      AskRequest(QTotal, <<"A.myshopify.com">>),
      AskRequest(QTotal, <<ShopC>>),
      AskRequest(QBlank, <<>>),
      [Malformed |-> TRUE, Question |-> <<>>, ShopIDs |-> <<>>] }

\* The HTTP requests of the model: u1 sends every body, the other callers
\* the plain one.
Requests ==
    { [sub |-> Sub1, body |-> b] : b \in Bodies }
    \cup { [sub |-> s, body |-> AskRequest(QTotal, <<>>)] : s \in Subs }

\* The schema provider (glue_schema.go).
\* Go's < on the column names the catalog can hold: their byte order.
NameOrder == <<"dt", "net_revenue", "shop_id", "units">>

NameRank(n) == CHOOSE i \in DOMAIN NameOrder : NameOrder[i] = n

NameLess(a, b) == NameRank(a) < NameRank(b)

\* glue_schema.go:27-30.
Column(name, type) == [Name |-> name, Type |-> type]

\* The rearrangements of a sequence.
PermsOf(s) ==
    LET n == Len(s)
    IN  { [i \in 1..n |-> s[f[i]]] :
            f \in { g \in [1..n -> 1..n] :
                      \A i, j \in 1..n : g[i] = g[j] => i = j } }

ByName_InputOrder(s) == {s}

\* glue_schema.go:78-79: sort.Slice with less on Name. The sort is not
\* stable: elements of equal name end in any order.
ByName(s) ==
    { p \in PermsOf(s) :
        \A i, j \in DOMAIN p : i < j => ~NameLess(p[j].Name, p[i].Name) }

\* What GetTable returns: an error, or a table.
GlueTable(name, location, columns, partitionKeys) ==
    [err |-> "",
     Table |-> [Name |-> name,
                StorageDescriptor |-> [Location |-> location,
                                       Columns |-> columns],
                PartitionKeys |-> partitionKeys]]

GlueError(text) == [err |-> text, Table |-> <<>>]

\* glue_schema.go:41-82: the schemas LoadTableSchema can return for an
\* answer of the catalog (one for each outcome of the two sorts), or its
\* error. A table without columns is a schema like any other.
LoadTableSchema(out, database, table) ==
    IF out.err # ""
    THEN { [schema |-> <<>>,
            err |-> "glue GetTable " \o database \o "." \o table \o ": "
                        \o out.err] }
    ELSE { [schema |-> << [Database   |-> database,
                           Table      |-> out.Table.Name,
                           Location   |-> out.Table.StorageDescriptor.Location,
                           Columns    |-> cols,
                           Partitions |-> parts] >>,
            err |-> ""] :
             cols  \in ByName(out.Table.StorageDescriptor.Columns),
             parts \in ByName(out.Table.PartitionKeys) }

\* glue_schema.go:90-121.
CompactSchemaText(s) ==
    LET colLine(i) ==
            "  " \o s.Columns[i].Name \o " " \o s.Columns[i].Type
                 \o (IF i = Len(s.Columns) THEN "" ELSE ",") \o "\n"
        partText(i) ==
            (IF i > 1 THEN ", " ELSE "")
                \o s.Partitions[i].Name \o " " \o s.Partitions[i].Type
    IN  "DATABASE " \o s.Database \o "\n"
        \o "TABLE " \o s.Table \o " (\n"
        \o JoinStr([i \in DOMAIN s.Columns |-> colLine(i)], "")
        \o ")\n"
        \o (IF Len(s.Partitions) > 0
            THEN "PARTITIONED BY ("
                 \o JoinStr([i \in DOMAIN s.Partitions |-> partText(i)], "")
                 \o ")\n"
            ELSE "")
        \o (IF s.Location # "" THEN "LOCATION " \o s.Location \o "\n" ELSE "")

\* GLUE_DATABASE and DAILY_METRICS_TABLE.
GlueDatabase == "trueprofit_analytics_dev"

DailyMetricsTable == "daily_metrics"

Location == "s3://trueprofit/daily_metrics/"

\* The table of the warehouse as the catalog holds it, and after a column
\* was added.
DailyMetrics ==
    GlueTable(DailyMetricsTable, Location,
              <<Column("net_revenue", "double")>>,
              <<Column("dt", "date"), Column("shop_id", "string")>>)

DailyMetricsWithUnits ==
    GlueTable(DailyMetricsTable, Location,
              <<Column("net_revenue", "double"), Column("units", "bigint")>>,
              <<Column("dt", "date"), Column("shop_id", "string")>>)

\* ask.go:81-85: the schema texts a request can see when the catalog
\* answers with one of the tables.
TextsOf(tables) ==
    { CompactSchemaText(l.schema[1]) :
        l \in UNION { LoadTableSchema(g, GlueDatabase, DailyMetricsTable) :
                        g \in tables } }

SchemaTexts == TextsOf({DailyMetrics})

\* What TodayISO() can return while the requests of a run are served.
Todays == {Today1}

\* SQL the model can write.
SqlScalar ==
    <<W("SELECT"), SP, W("COALESCE"), P("("), W("SUM"), P("("),
      W("net_revenue"), P(")"), P(","), W("0"), P(")"), SP, W("AS"), SP,
      W("total_net_revenue"), SP, W("FROM"), SP, W("daily_metrics"), SP,
      W("WHERE"), SP>>
    \o GeDate("2025-10-21") \o <<SP, W("AND"), SP>> \o ShopIn(<<ShopA>>)

SqlNoSpace ==
    SelectHead \o <<W("dt"), P(">"), Q("2025-12-31"), SP, W("and"), SP>>
    \o ShopEq(ShopA)

SqlOtherShop ==
    SelectHead \o ShopEq(ShopC) \o <<SP, W("and"), SP>> \o GeDate("2026-01-01")

HandlerSQL == {SqlScalar, SqlNoSpace, SqlOtherShop, <<>>}

\* The lexemes of a SQL text of the handler.
Lex == [s \in {Text(c) : c \in HandlerSQL} |->
            CHOOSE c \in HandlerSQL : Text(c) = s]

\* The JSON object of a model reply, sql as the model wrote it.
ModelJSON(sqlSeq, conf, assume, nc, cq) ==
    [kind |-> "json", sql |-> sqlSeq, confidence |-> conf,
     assumptions |-> assume, needs_clarification |-> nc,
     clarifying_question |-> cq]

\* What one InvokeModel call can produce.
ModelOutcomes ==
    { [kind |-> "transport"],
      [kind |-> "nojson"],
      ModelJSON(<<SP>> \o SqlScalar \o <<SP>>, "0.9",
                <<"net revenue of all shops">>, FALSE, ""),
      ModelJSON(SqlNoSpace, "0.7", <<"all columns">>, FALSE, ""),
      ModelJSON(SqlOtherShop, "0.5", <<"shop c">>, FALSE, ""),
      ModelJSON(<<>>, "0.1", <<>>, FALSE, ""),
      ModelJSON(<<>>, "0.2", <<"ambiguous metric">>, TRUE,
                "Which revenue: gross or net?") }

\* InvokeBedrockClaude given the outcome of InvokeModel: [err, res].
InvokeBedrockClaude(out) ==
    CASE out.kind = "transport" ->
            [err |-> "bedrock InvokeModel: connection reset", res |-> <<>>]
      [] out.kind = "cancelled" ->
            [err |-> "bedrock InvokeModel: " \o out.err, res |-> <<>>]
      [] out.kind = "nojson" ->
            [err |-> "model did not return JSON object", res |-> <<>>]
      [] out.kind = "malformed" ->
            [err |-> "LLM JSON parse failed: invalid character", res |-> <<>>]
      [] OTHER ->
            \* json.Unmarshal leaves the zero value in a field the object lacks.
            LET Field(name, zero) ==
                    IF name \in DOMAIN out THEN out[name] ELSE zero
            IN  [err |-> "",
                 res |-> << [SQL |-> Text(TrimSpaceSeq(Field("sql", <<>>))),
                             Confidence |-> Field("confidence", "0"),
                             Assumptions |-> Field("assumptions", <<>>),
                             NeedsClarification |->
                                 Field("needs_clarification", FALSE),
                             ClarifyingQuestion |->
                                 Field("clarifying_question", "")] >>]

AthenaResult(qid, cols, rows, scanned, ms) ==
    [QueryExecutionID |-> qid, Columns |-> cols, Rows |-> rows,
     ScannedBytes |-> scanned, ExecutionMs |-> ms]

\* AthenaError.Error()
AthenaErrorText(state, reason, qid) ==
    "athena " \o state \o ": " \o reason \o " (qid=" \o qid \o ")"

\* What one RunAthenaQuery call can return: [err, res].
AthenaOutcomes ==
    { [err |-> "",
       res |-> << AthenaResult("q-1", <<"total_net_revenue">>,
                     << [total_net_revenue |-> GoFloat("12345.67")] >>,
                     2048, 850) >>],
      [err |-> "",
       res |-> << AthenaResult("q-2", <<"shop_id", "units">>,
                     << [shop_id |-> GoStr(ShopA),
                         units |-> GoInt("9007199254740993")] >>,
                     4096, 1200) >>],
      [err |-> AthenaErrorText("FAILED", "SYNTAX_ERROR", "q-3"), res |-> <<>>],
      [err |-> AthenaErrorText("TIMEOUT", "query timed out", "q-4"),
       res |-> <<>>] }

\* What RunAthenaQuery returns when the context is cancelled at the
\* submission, at a poll or at a result page (part_005:248, :262, :295).
AthenaCancelled(ctxErr) ==
    { [err |-> "athena " \o call \o ": " \o ctxErr, res |-> <<>>] :
        call \in {"StartQueryExecution", "GetQueryExecution",
                  "GetQueryResults"} }

----------------------------------------------------------------------------
(* AskHandler.Handle and ExecuteWithSelfCorrection *)

MaxFixAttempts == 2
cacheTTLSeconds == 600
Timezone == "Asia/Ho_Chi_Minh"

\* Invocation slots, and how many invocations a run serves.
OneSlot == {"h1"}

\* The invocations in flight at once: the slots the run was started with.
Slots == DOMAIN rq
MaxRequests == 2

jsonOK(v) == [StatusCode |-> 200, Body |-> v]

jsonErr(status, msg, err) ==
    [StatusCode |-> status,
     Body |-> IF err # "" THEN [error |-> msg, detail |-> err]
              ELSE [error |-> msg]]

\* m[key] of a Go map[string]any: the zero value nil for a missing key.
MapIndex(m, key) == IF key \in DOMAIN m THEN m[key] ELSE GoNil

ShapeResult_OneRow(columns, rows) ==
    IF Len(rows) = 1 /\ Len(columns) >= 1
    THEN [columns |-> columns, rows |-> rows, kind |-> "scalar",
          value |-> MapIndex(rows[1], columns[1])]
    ELSE [columns |-> columns, rows |-> rows, kind |-> "table"]

\* ShapeResult: a 1x1 result is a scalar and carries its value.
ShapeResult(columns, rows) ==
    IF Len(rows) = 1 /\ Len(columns) = 1
    THEN [columns |-> columns, rows |-> rows, kind |-> "scalar",
          value |-> MapIndex(rows[1], columns[1])]
    ELSE [columns |-> columns, rows |-> rows, kind |-> "table"]

\* json.Marshal of the "result" member, as jsonOK writes it to the body.
MarshalShape(s) ==
    IF "value" \in DOMAIN s
    THEN [s EXCEPT !.rows = MarshalRows(@), !.value = MarshalValue(@)]
    ELSE [s EXCEPT !.rows = MarshalRows(@)]

\* The Go zero LLMResult and the state of a slot between invocations.
ZeroLLM ==
    [SQL |-> "", Confidence |-> "0", Assumptions |-> <<>>,
     NeedsClarification |-> FALSE, ClarifyingQuestion |-> ""]

IdleReq ==
    [pc |-> "idle", sub |-> "", body |-> AskRequest(<<>>, <<>>),
     allowedShopIDs |-> <<>>, schemaText |-> "", today |-> "",
     prompt |-> [kind |-> "none"], llmRes |-> <<>>, cur |-> ZeroLLM,
     fixed |-> <<>>, lastErr |-> "", attempt |-> 0,
     finalLLM |-> <<>>, athRes |-> <<>>, resp |-> <<>>, ev |-> <<>>,
     ctxErr |-> "", cancelledAt |-> "", resolved |-> <<>>]

\* ctx.Err() once the context of the invocation is cancelled.
Canceled == "context canceled"

\* What a call made with the context of req can return: any of its outcomes
\* while the context is live, the context's error once it is cancelled.
Under(req, live, cancelled) == IF req.ctxErr = "" THEN live ELSE cancelled

\* History of an invocation: the calls that returned, with their outcome
\* and the SQL (or the clarifying question, or the error) they concern.
\* err is the error the call returned ("" for none) and llm the LLMResult
\* it returned (a pointer).
EventOf(op, out, text, err, llm) ==
    [op |-> op, out |-> out, text |-> text, err |-> err, llm |-> llm]

Event(op, out, text) == EventOf(op, out, text, "", <<>>)

Return(req, resp) == [req EXCEPT !.pc = "done", !.resp = <<resp>>]

\* The CacheKey of ask.go:99.
CacheKeyOf(req) ==
    [UserSub |-> req.sub, Shops |-> req.allowedShopIDs,
     Question |-> req.body.Question, TodayISO |-> req.today,
     MaxDays |-> DefaultMaxDays, SchemaHash |-> SchemaHash(req.schemaText)]

\* The ValidateOptions of ask.go:153.
sqlValidate(req) ==
    [AllowedShopIDs |-> req.allowedShopIDs, RequireDTFilter |-> TRUE,
     MaxDaysLookback |-> DefaultMaxDays, TodayISO |-> req.today]

\* What BuildPrompt and BuildFixPrompt put into the prompt.
DtMin(todayISO, maxDays) == FormatISO(SubDays(ParseDate(todayISO).t, maxDays))

BuildPrompt(req) ==
    [kind |-> "initial", shops |-> JoinStr(req.allowedShopIDs, ", "),
     dtMin |-> DtMin(req.today, DefaultMaxDays), today |-> req.today,
     timezone |-> Timezone, schema |-> req.schemaText,
     question |-> Text(req.body.Question)]

BuildFixPrompt(req, previousSQL, athenaError) ==
    [kind |-> "fix", shops |-> JoinStr(req.allowedShopIDs, ", "),
     dtMin |-> DtMin(req.today, DefaultMaxDays), schema |-> req.schemaText,
     question |-> Text(req.body.Question),
     previousSQL |-> previousSQL, athenaError |-> athenaError]

\* GetCached: [ok, resp, err] given the table and whether GetItem
\* succeeded.  An item is returned whatever its ExpiresAt.
GetCached(items, key, getOK) ==
    LET k == <<MakeCachePK(key.UserSub), MakeCacheSK(key)>>
    IN  IF ~getOK
        THEN [ok |-> FALSE, resp |-> <<>>, err |-> "dynamodb GetItem failed"]
        ELSE IF k \in DOMAIN items
        THEN [ok |-> TRUE, resp |-> <<UnmarshalCached(items[k].Payload)>>,
              err |-> ""]
        ELSE [ok |-> FALSE, resp |-> <<>>, err |-> ""]

\* PutCached: the table after the call, given whether PutItem succeeded.
PutCached(items, key, resp, clock, putOK) ==
    LET k == <<MakeCachePK(key.UserSub), MakeCacheSK(key)>>
        item == [Payload |-> MarshalCached(resp),
                 ExpiresAt |-> clock + cacheTTLSeconds, CreatedAt |-> clock]
    IN  IF putOK
        THEN [x \in DOMAIN items \cup {k} |-> IF x = k THEN item ELSE items[x]]
        ELSE items

\* The CachedResponse of ask.go:224.
CachedResponseOf(llm, ath) ==
    [SQL |-> llm.SQL, Columns |-> ath.Columns, Rows |-> ath.Rows,
     Assumptions |-> llm.Assumptions, Confidence |-> llm.Confidence,
     ScannedBytes |-> ath.ScannedBytes, ExecMs |-> ath.ExecutionMs,
     QueryID |-> ath.QueryExecutionID]

\* The response of a cache hit (ask.go:109).
CachedResultResponse(c) ==
    jsonOK([type |-> "result", cached |-> TRUE, sql |-> c.SQL,
            assumptions |-> c.Assumptions, confidence |-> c.Confidence,
            result |-> MarshalShape(ShapeResult(c.Columns, c.Rows)),
            query_id |-> c.QueryID, scanned_bytes |-> c.ScannedBytes,
            exec_ms |-> c.ExecMs])

\* The response of a computed result (ask.go:236).
ResultResponse(llm, ath) ==
    jsonOK([type |-> "result", sql |-> llm.SQL,
            assumptions |-> llm.Assumptions, confidence |-> llm.Confidence,
            result |-> MarshalShape(ShapeResult(ath.Columns, ath.Rows)),
            query_id |-> ath.QueryExecutionID,
            scanned_bytes |-> ath.ScannedBytes, exec_ms |-> ath.ExecutionMs])

ClarificationResponse_NoQuestion(llm) ==
    jsonOK([type |-> "clarification",
            clarifying_question |-> "",
            assumptions |-> llm.Assumptions,
            confidence |-> llm.Confidence])

\* The clarification response (ask.go:144 and ask.go:215).
ClarificationResponse(llm) ==
    jsonOK([type |-> "clarification",
            clarifying_question |-> llm.ClarifyingQuestion,
            assumptions |-> llm.Assumptions,
            confidence |-> llm.Confidence])

\* The sql_rejected response (ask.go:160).
RejectedResponse(llm, reason) ==
    jsonOK([type |-> "sql_rejected", reason |-> reason,
            model_sql |-> llm.SQL,
            assumptions |-> llm.Assumptions, confidence |-> llm.Confidence])

\* The athena_failed response (ask.go:195); finalLLM is a pointer.
FailedResponse(finalLLM, runErr) ==
    LET last == IF finalLLM # <<>> THEN finalLLM[1] ELSE ZeroLLM
    IN  jsonOK([type |-> "athena_failed", error |-> runErr,
                last_sql |-> last.SQL, assumptions |-> last.Assumptions,
                confidence |-> last.Confidence])

AfterTenancy_NoShopsCheck(req, queryOK, allowed, effective) ==
    IF ~queryOK
    THEN Return(req, jsonErr(500, "shop_lookup_failed",
                             "dynamodb query GSI_UserSub failed"))
    ELSE IF Len(effective) = 0
    THEN Return(req, jsonErr(403, "no_allowed_shops_in_request", ""))
    ELSE [req EXCEPT !.pc = "schema", !.allowedShopIDs = effective,
                     !.resolved = allowed]

\* ask.go:64-81: what Handle does with the shops of the caller and the
\* effective allowlist, up to the call of the schema provider.
AfterTenancy(req, queryOK, allowed, effective) ==
    IF ~queryOK
    THEN Return(req, jsonErr(500, "shop_lookup_failed",
                             "dynamodb query GSI_UserSub failed"))
    ELSE IF Len(allowed) = 0
    THEN Return(req, jsonOK([type |-> "no_shops",
                             error |-> "no shops connected to this user"]))
    ELSE IF Len(effective) = 0
    THEN Return(req, jsonErr(403, "no_allowed_shops_in_request", ""))
    ELSE [req EXCEPT !.pc = "schema", !.allowedShopIDs = effective,
                     !.resolved = allowed]

AfterGet_FailOnError(req, got) ==
    IF got.err # "" THEN Return(req, jsonErr(500, "cache_error", got.err))
    ELSE IF got.ok THEN Return(req, CachedResultResponse(got.resp[1]))
    ELSE [req EXCEPT !.pc = "model0", !.prompt = BuildPrompt(req)]

\* ask.go:108-137: a hit (no error and found) answers the request; a miss
\* and a failed read both go on to the prompt and the model.
AfterGet(req, got) ==
    IF got.err = "" /\ got.ok
    THEN Return(req, CachedResultResponse(got.resp[1]))
    ELSE [req EXCEPT !.pc = "model0", !.prompt = BuildPrompt(req)]

\* The effective allowlists the requests of the model can have.
HandlerAllowlists ==
    { intersectAllowed(b.ShopIDs,
                       GetAllowedShopsByUserSub(ItemsAfter(ShopItems(u), gone))) :
        b \in Bodies, u \in Subs, gone \in SUBSET Revocable } \ { <<>> }

\* ValidateSQL on the SQL texts and options of the handler, tabulated.
Verdict ==
    [s \in DOMAIN Lex, a \in HandlerAllowlists, d \in Todays |->
        ValidateSQL(Lex[s], [AllowedShopIDs |-> a, RequireDTFilter |-> TRUE,
                             MaxDaysLookback |-> DefaultMaxDays,
                             TodayISO |-> d])]

\* The validator consulted but never heeded.
Validated_Unheeded(res, o) == ""

\* The call ValidateSQL(res.SQL, sqlValidate) of ask.go:159, part_006:86
\* and part_006:116 on a reply of the model ("" when there is no reply).
Validated(res, o) ==
    IF res.res = <<>> THEN ""
    ELSE Verdict[res.res[1].SQL, o.AllowedShopIDs, o.TodayISO]

\* strings.Contains(strings.ToLower(sql), "dt >=") and (..., "dt between").
HasDtMarker(low) ==
    \E i \in 1..(Len(low) - 2) :
        /\ low[i] = W("dt") /\ low[i + 1] = SP
        /\ low[i + 2] \in {P(">="), W("between")}

\* The auto-inject of part_006:126: applied to cur, the candidate before
\* the one about to run.
WrapIfUnbounded(curSQL, dtMin) ==
    IF ~HasDtMarker(ToLowerSeq(Lex[curSQL]))
    THEN "SELECT * FROM (" \o curSQL \o ") WHERE dt >= date '" \o dtMin \o "'"
    ELSE curSQL

\* A negative budget read as its magnitude.
ClampFix_Magnitude(maxFixAttempts) ==
    IF maxFixAttempts < 0 THEN -maxFixAttempts ELSE maxFixAttempts

\* part_006:80-82: a negative budget of repair attempts is no budget.
ClampFix(maxFixAttempts) == IF maxFixAttempts < 0 THEN 0 ELSE maxFixAttempts

LoopContinues_OneMore(attempt, maxFixAttempts) == attempt <= maxFixAttempts + 1

\* The loop condition of part_006:95.
LoopContinues(attempt, maxFixAttempts) == attempt <= maxFixAttempts

AfterRun_CacheAlways(req, finalLLM, athRes, runErr) ==
    [req EXCEPT !.pc = "cacheput", !.finalLLM = finalLLM, !.athRes = athRes]

\* ask.go:195-233: what Handle does with the three results of
\* ExecuteWithSelfCorrection, up to the call of PutCached.
AfterRun(req, finalLLM, athRes, runErr) ==
    IF runErr # "" THEN Return(req, FailedResponse(finalLLM, runErr))
    ELSE IF athRes = <<>> /\ finalLLM # <<>> /\ finalLLM[1].NeedsClarification
    THEN Return(req, ClarificationResponse(finalLLM[1]))
    ELSE [req EXCEPT !.pc = "cacheput", !.finalLLM = finalLLM,
                     !.athRes = athRes]

NextAttempt_NoLast(req) ==
    IF LoopContinues(req.attempt, ClampFix(env.maxFixAttempts))
    THEN [req EXCEPT !.pc = "fixmodel",
                     !.prompt = BuildFixPrompt(req, req.cur.SQL, req.lastErr)]
    ELSE AfterRun(req, <<>>, <<>>,
                  "athena failed after retries: " \o req.lastErr)

\* part_006:95-107 and :143: the next turn of the repair loop, or its end.
NextAttempt(req) ==
    IF LoopContinues(req.attempt, ClampFix(env.maxFixAttempts))
    THEN [req EXCEPT !.pc = "fixmodel",
                     !.prompt = BuildFixPrompt(req, req.cur.SQL, req.lastErr)]
    ELSE AfterRun(req, <<req.cur>>, <<>>,
                  "athena failed after retries: " \o req.lastErr)

\* part_006:85-89: the start of ExecuteWithSelfCorrection; why is the
\* verdict of ValidateSQL on the initial SQL.
BeginRun(req, initialLLM, why) ==
    LET r1  == [req EXCEPT !.cur = initialLLM,
                  !.ev = Append(@, EventOf("ValidateSQL",
                                   IF why = "" THEN "ok" ELSE "rejected",
                                   initialLLM.SQL, why, <<>>))]
    IN  IF why # ""
        THEN AfterRun(r1, <<>>, <<>>, "initial sql rejected: " \o why)
        ELSE [r1 EXCEPT !.pc = "exec0"]

InitialReply_NoCheck(req, res, why) ==
    LET llm == res.res[1]
        r1  == [req EXCEPT !.llmRes = res.res]
    IN  IF res.err # ""
        THEN Return(req, jsonErr(500, "bedrock_error", res.err))
        ELSE IF llm.NeedsClarification
        THEN Return(r1, ClarificationResponse(llm))
        ELSE BeginRun(r1, llm, why)

\* ask.go:137-194: Handle from the return of the first model call to the
\* first query submission; why is the verdict of ValidateSQL on the SQL of
\* the reply.
InitialReply(req, res, why) ==
    LET llm == res.res[1]
        r1  == [req EXCEPT !.llmRes = res.res]
        r2  == [r1 EXCEPT !.ev = Append(@, EventOf("ValidateSQL",
                                    IF why = "" THEN "ok" ELSE "rejected",
                                    llm.SQL, why, <<>>))]
    IN  IF res.err # ""
        THEN Return(req, jsonErr(500, "bedrock_error", res.err))
        ELSE IF llm.NeedsClarification
        THEN Return(r1, ClarificationResponse(llm))
        ELSE IF why # "" THEN Return(r2, RejectedResponse(llm, why))
        ELSE BeginRun(r2, llm, why)

FixReply_KeepError(req, res, why) ==
    LET fixed == res.res[1]
        r1    == [req EXCEPT !.fixed = res.res]
        r2    == [r1 EXCEPT !.ev = Append(@, EventOf("ValidateSQL",
                                      IF why = "" THEN "ok" ELSE "rejected",
                                      fixed.SQL, why, <<>>))]
    IN  IF res.err # ""
        THEN AfterRun(req, <<>>, <<>>,
                      "bedrock fix attempt " \o ToString(req.attempt)
                          \o " failed: " \o res.err)
        ELSE IF fixed.NeedsClarification
        THEN AfterRun(r1, res.res, <<>>, "")
        ELSE IF why # ""
        THEN NextAttempt([r2 EXCEPT !.cur = fixed, !.attempt = @ + 1])
        ELSE [r2 EXCEPT !.pc = "fixexec",
                        !.cur.SQL = WrapIfUnbounded(@, DtMin(req.today,
                                                            DefaultMaxDays))]

\* part_006:107-135: the loop body from the return of the fix call to the
\* submission of the fixed SQL; why is the verdict of ValidateSQL on it.
FixReply(req, res, why) ==
    LET fixed == res.res[1]
        r1    == [req EXCEPT !.fixed = res.res]
        r2    == [r1 EXCEPT !.ev = Append(@, EventOf("ValidateSQL",
                                      IF why = "" THEN "ok" ELSE "rejected",
                                      fixed.SQL, why, <<>>))]
    IN  IF res.err # ""
        THEN AfterRun(req, <<>>, <<>>,
                      "bedrock fix attempt " \o ToString(req.attempt)
                          \o " failed: " \o res.err)
        ELSE IF fixed.NeedsClarification
        THEN AfterRun(r1, res.res, <<>>, "")
        ELSE IF why # ""
        THEN NextAttempt([r2 EXCEPT !.lastErr = "fixed sql rejected: " \o why,
                                    !.cur = fixed, !.attempt = @ + 1])
        ELSE [r2 EXCEPT !.pc = "fixexec",
                        !.cur.SQL = WrapIfUnbounded(@, DtMin(req.today,
                                                            DefaultMaxDays))]

----------------------------------------------------------------------------
(* The /ask specification: invocations of Handle against one cache table *)

\* The invocations of a run are served one after the other and within one
\* TTL of each other: no item expires while the run lasts.
Init ==
    /\ rq = [r \in OneSlot |-> IdleReq]
    /\ cache = <<>>
    /\ prov = <<>>
    /\ served = 0
    /\ now = 0
    /\ sql = <<>> /\ opt = <<>> /\ verdict = "" /\ vpc = "off"
    /\ env = [schemas |-> SchemaTexts, requests |-> Requests,
              maxFixAttempts |-> MaxFixAttempts]
    /\ cc = <<>> /\ aq = <<>> /\ fx = <<>>

Set(r, req) == rq' = [rq EXCEPT ![r] = req]

\* History: the model answered.
Replied(req, res) ==
    [req EXCEPT !.ev = Append(@, EventOf("InvokeBedrockClaude",
        IF res.err # "" THEN "err"
        ELSE IF res.res[1].NeedsClarification THEN "clarification" ELSE "sql",
        IF res.err # "" THEN res.err
        ELSE IF res.res[1].NeedsClarification
        THEN res.res[1].ClarifyingQuestion ELSE res.res[1].SQL,
        res.err, res.res))]

\* ask.go:43-63: parse the body, read the sub claim, ask for the shops.
Start(r) ==
    /\ rq[r].pc = "idle"
    /\ served + Cardinality({x \in Slots : rq[x].pc # "idle"}) < MaxRequests
    /\ \E req \in env.requests :
         LET sub  == req.sub
             body == req.body
             q    == TrimSpaceSeq(body.Question)
         IN  Set(r, IF body.Malformed
                    THEN Return(rq[r], jsonErr(400, "invalid_json",
                                               "unexpected end of JSON input"))
                    ELSE IF q = <<>>
                    THEN Return(rq[r], jsonErr(400, "question_required", ""))
                    ELSE IF TrimSpace(sub) = ""
                    THEN Return(rq[r], jsonErr(401, "missing_user_sub", ""))
                    ELSE [rq[r] EXCEPT !.pc = "tenancy", !.sub = TrimSpace(sub),
                                       !.body = [body EXCEPT !.Question = q]])
    /\ UNCHANGED <<cache, prov, served, now>>
    /\ UNCHANGED vvars
    /\ UNCHANGED xvars

\* ask.go:63-81: the shops of the caller, the effective allowlist, then the
\* schema is requested.
TenancyReturn(r) ==
    /\ rq[r].pc = "tenancy"
    /\ \E queryOK \in Under(rq[r], BOOLEAN, {FALSE}) :
         LET allowed   == GetAllowedShopsByUserSub(ShopItemsNow(rq[r].sub))
             effective == intersectAllowed(rq[r].body.ShopIDs, allowed)
         IN  Set(r, AfterTenancy(rq[r], queryOK, allowed, effective))
    /\ UNCHANGED <<cache, prov, served, now>>
    /\ UNCHANGED vvars
    /\ UNCHANGED xvars

\* ask.go:81-108: the schema text, today's date, the cache key, then the
\* cache is read.
SchemaReturn(r) ==
    /\ rq[r].pc = "schema"
    /\ \/ Set(r, Return(rq[r], jsonErr(500, "glue_get_table_failed",
                                       "glue GetTable failed")))
       \/ \E text \in Under(rq[r], env.schemas, {}), today \in Todays :
            Set(r, [rq[r] EXCEPT !.pc = "cacheget", !.schemaText = text,
                                 !.today = today])
    /\ UNCHANGED <<cache, prov, served, now>>
    /\ UNCHANGED vvars
    /\ UNCHANGED xvars

\* ask.go:108-137: a hit answers the request; otherwise the prompt is built
\* and the model is called.
CacheGetReturn(r) ==
    /\ rq[r].pc = "cacheget"
    /\ \E getOK \in Under(rq[r], BOOLEAN, {FALSE}) :
         LET got == GetCached(cache, CacheKeyOf(rq[r]), getOK)
             out == IF ~getOK THEN "err" ELSE IF got.ok THEN "hit" ELSE "miss"
             r1  == [rq[r] EXCEPT !.ev = Append(@, Event("GetCached", out, ""))]
         IN  Set(r, AfterGet(r1, got))
    /\ UNCHANGED <<cache, prov, served, now>>
    /\ UNCHANGED vvars
    /\ UNCHANGED xvars

\* ask.go:137-194 and part_006:80-89.
Model0Return(r) ==
    /\ rq[r].pc = "model0"
    /\ \E out \in Under(rq[r], ModelOutcomes,
                       {[kind |-> "cancelled", err |-> rq[r].ctxErr]}) :
         \E res \in {InvokeBedrockClaude(out)} :
           \E why \in {Validated(res, sqlValidate(rq[r]))} :
             Set(r, InitialReply(Replied(rq[r], res), res, why))
    /\ UNCHANGED <<cache, prov, served, now>>
    /\ UNCHANGED vvars
    /\ UNCHANGED xvars

\* part_006:89-107: the initial SQL ran; on an error the repair loop starts.
Exec0Return(r) ==
    /\ rq[r].pc = "exec0"
    /\ \E out \in Under(rq[r], AthenaOutcomes, AthenaCancelled(rq[r].ctxErr)) :
         LET r1 == [rq[r] EXCEPT !.ev = Append(@, EventOf("RunAthenaQuery",
                        IF out.err = "" THEN "ok" ELSE "err", rq[r].cur.SQL,
                        out.err, <<>>))]
         IN  Set(r, IF out.err = ""
                    THEN AfterRun(r1, <<r1.cur>>, out.res, "")
                    ELSE NextAttempt([r1 EXCEPT !.lastErr = out.err,
                                                !.attempt = 1]))
    /\ UNCHANGED <<cache, prov, served, now>>
    /\ UNCHANGED vvars
    /\ UNCHANGED xvars

\* part_006:107-135: the model answered a fix prompt.
FixModelReturn(r) ==
    /\ rq[r].pc = "fixmodel"
    /\ \E out \in Under(rq[r], ModelOutcomes,
                       {[kind |-> "cancelled", err |-> rq[r].ctxErr]}) :
         \E res \in {InvokeBedrockClaude(out)} :
           \E why \in {Validated(res, sqlValidate(rq[r]))} :
             Set(r, FixReply(Replied(rq[r], res), res, why))
    /\ UNCHANGED <<cache, prov, served, now>>
    /\ UNCHANGED vvars
    /\ UNCHANGED xvars

FixExecReturn_ReturnsCur(r) ==
    /\ rq[r].pc = "fixexec"
    /\ \E out \in Under(rq[r], AthenaOutcomes, AthenaCancelled(rq[r].ctxErr)) :
         LET fixed == rq[r].fixed[1]
             r1 == [rq[r] EXCEPT !.ev = Append(@, EventOf("RunAthenaQuery",
                        IF out.err = "" THEN "ok" ELSE "err", fixed.SQL,
                        out.err, <<>>))]
         IN  Set(r, IF out.err = ""
                    THEN AfterRun(r1, <<rq[r].cur>>, out.res, "")
                    ELSE NextAttempt([r1 EXCEPT !.lastErr = out.err,
                                                !.cur = fixed,
                                                !.attempt = @ + 1]))
    /\ UNCHANGED <<cache, prov, served, now>>
    /\ UNCHANGED vvars
    /\ UNCHANGED xvars

\* part_006:135-143: the fixed SQL ran (the SQL of fixed, not of cur).
FixExecReturn(r) ==
    /\ rq[r].pc = "fixexec"
    /\ \E out \in Under(rq[r], AthenaOutcomes, AthenaCancelled(rq[r].ctxErr)) :
         LET fixed == rq[r].fixed[1]
             r1 == [rq[r] EXCEPT !.ev = Append(@, EventOf("RunAthenaQuery",
                        IF out.err = "" THEN "ok" ELSE "err", fixed.SQL,
                        out.err, <<>>))]
         IN  Set(r, IF out.err = ""
                    THEN AfterRun(r1, <<fixed>>, out.res, "")
                    ELSE NextAttempt([r1 EXCEPT !.lastErr = out.err,
                                                !.cur = fixed,
                                                !.attempt = @ + 1]))
    /\ UNCHANGED <<cache, prov, served, now>>
    /\ UNCHANGED vvars
    /\ UNCHANGED xvars

\* ask.go:224-245: PutCached returned (its error is dropped) and the result
\* is answered.
CachePutReturn(r) ==
    /\ rq[r].pc = "cacheput"
    /\ \E putOK \in Under(rq[r], BOOLEAN, {FALSE}) :
         LET key  == CacheKeyOf(rq[r])
             llm  == rq[r].finalLLM[1]
             ath  == rq[r].athRes[1]
             resp == ResultResponse(llm, ath)
             k    == <<MakeCachePK(key.UserSub), MakeCacheSK(key)>>
         IN  /\ cache' = PutCached(cache, key, CachedResponseOf(llm, ath),
                                   now, putOK)
             /\ prov' = IF putOK
                        THEN [x \in DOMAIN prov \cup {k} |->
                                IF x = k THEN [key |-> key, n |-> served,
                                               body |-> resp.Body]
                                ELSE prov[x]]
                        ELSE prov
             /\ Set(r, Return([rq[r] EXCEPT !.ev = Append(@, Event("PutCached",
                                   IF putOK THEN "ok" ELSE "err", llm.SQL))],
                              resp))
    /\ UNCHANGED <<served, now>>
    /\ UNCHANGED vvars
    /\ UNCHANGED xvars

\* The invocation has returned its response; the slot is free again.
Finish(r) ==
    /\ rq[r].pc = "done"
    /\ Set(r, IdleReq)
    /\ served' = served + 1
    /\ UNCHANGED <<cache, prov, now>>
    /\ UNCHANGED vvars
    /\ UNCHANGED xvars

Next ==
    \E r \in Slots :
        \/ Start(r)
        \/ TenancyReturn(r)
        \/ SchemaReturn(r)
        \/ CacheGetReturn(r)
        \/ Model0Return(r)
        \/ Exec0Return(r)
        \/ FixModelReturn(r)
        \/ FixExecReturn(r)
        \/ CachePutReturn(r)
        \/ Finish(r)

Spec == Init /\ [][Next]_vars

\* Observations of an invocation.
Calls(r, op) ==
    Cardinality({i \in DOMAIN rq[r].ev : rq[r].ev[i].op = op})
    + (IF \/ op = "InvokeBedrockClaude" /\ rq[r].pc \in {"model0", "fixmodel"}
          \/ op = "RunAthenaQuery" /\ rq[r].pc \in {"exec0", "fixexec"}
          \/ op = "PutCached" /\ rq[r].pc = "cacheput"
          \/ op = "GetCached" /\ rq[r].pc = "cacheget"
       THEN 1 ELSE 0)

Done(r) == rq[r].pc = "done"
RespType(r) ==
    IF Done(r) /\ "type" \in DOMAIN rq[r].resp[1].Body
    THEN rq[r].resp[1].Body.type ELSE "none"

----------------------------------------------------------------------------
(* Properties of the /ask handler *)

ModelCalls(r) == Calls(r, "InvokeBedrockClaude")
ExecCalls(r)  == Calls(r, "RunAthenaQuery")
PutCalls(r)   == Calls(r, "PutCached")
Body(r)       == rq[r].resp[1].Body

\* C4: in every request the number of executor invocations is at most
\* max_fix_attempts + 1, whatever the executor and the model answer.
C4_ExecutorInvocationsBounded ==
    \A r \in Slots : ExecCalls(r) <= MaxFixAttempts + 1

\* An invocation that ran the initial SQL and one SQL per repair attempt.
C4_Witness ==
    \E r \in Slots : Done(r) /\ ExecCalls(r) = MaxFixAttempts + 1

\* The verdict of the validator on the initial reply of an invocation.
InitialVerdict(r) ==
    Verdict[rq[r].llmRes[1].SQL, rq[r].allowedShopIDs, rq[r].today]

\* C5: if the validator rejects the SQL of the initial model reply, the
\* request ends with a sql_rejected response carrying the rejection reason
\* and the model's SQL, and the request makes no repair model invocation,
\* no executor invocation and no cache write.
C5_InitialRejectionIsFinal ==
    \A r \in Slots :
        ( /\ rq[r].llmRes # <<>>
          /\ ~rq[r].llmRes[1].NeedsClarification
          /\ InitialVerdict(r) # "" )
        => /\ Done(r)
           /\ RespType(r) = "sql_rejected"
           /\ Body(r).reason = InitialVerdict(r)
           /\ Body(r).model_sql = rq[r].llmRes[1].SQL
           /\ ModelCalls(r) = 1
           /\ ExecCalls(r) = 0
           /\ PutCalls(r) = 0

\* The initial reply names a shop outside the allowlist and is rejected.
C5_Witness ==
    \E r \in Slots :
        /\ Done(r)
        /\ rq[r].llmRes # <<>>
        /\ rq[r].llmRes[1].SQL = Text(SqlOtherShop)
        /\ RespType(r) = "sql_rejected"
        /\ Body(r).reason = "shop_id value not allowed: c.myshopify.com"

\* C6: if any model invocation of a request, the initial one or a repair
\* attempt, returns needs_clarification = true, the request ends with a
\* clarification response carrying that reply's clarifying question, and
\* nothing is invoked or written after that reply.
C6_ClarificationIsFinal ==
    \A r \in Slots :
        \A i \in DOMAIN rq[r].ev :
            ( /\ rq[r].ev[i].op = "InvokeBedrockClaude"
              /\ rq[r].ev[i].out = "clarification" )
            => /\ i = Len(rq[r].ev)
               /\ Done(r)
               /\ RespType(r) = "clarification"
               /\ Body(r).clarifying_question = rq[r].ev[i].text
               /\ PutCalls(r) = 0

\* A repair attempt, after a failed run, answers with a clarification.
C6_Witness ==
    \E r \in Slots :
        /\ Done(r)
        /\ RespType(r) = "clarification"
        /\ ExecCalls(r) >= 1
        /\ rq[r].ev[Len(rq[r].ev)].out = "clarification"

\* C7: a cache put happens in a request only if the request returns a
\* result computed by a successful executor run; a request that ends in
\* clarification, sql_rejected, athena_failed, no_shops or an error never
\* writes to the cache.
C7_PutOnlyAfterSuccess ==
    \A r \in Slots :
        PutCalls(r) > 0
        => /\ \E i \in DOMAIN rq[r].ev :
                /\ rq[r].ev[i].op = "RunAthenaQuery"
                /\ rq[r].ev[i].out = "ok"
                /\ \A j \in DOMAIN rq[r].ev :
                     j > i => rq[r].ev[j].op = "PutCached"
           /\ Done(r) => /\ RespType(r) = "result"
                         /\ "cached" \notin DOMAIN Body(r)

\* A result obtained by a repair attempt is written to the cache.
C7_Witness ==
    \E r \in Slots :
        /\ Done(r) /\ PutCalls(r) = 1 /\ ExecCalls(r) = 2
        /\ RespType(r) = "result"
        /\ cache # <<>>

\* The invocation has built its CacheKey (ask.go:99).
HasKey(r) == rq[r].pc \notin {"idle", "tenancy", "schema"} /\ rq[r].today # ""

KeyOf(r) == CacheKeyOf(rq[r])
ItemKey(k) == <<MakeCachePK(k.UserSub), MakeCacheSK(k)>>

\* The outcome of the cache read of an invocation, "none" before it.
GetOutcome(r) ==
    IF \E i \in DOMAIN rq[r].ev : rq[r].ev[i].op = "GetCached"
    THEN rq[r].ev[CHOOSE i \in DOMAIN rq[r].ev :
                      rq[r].ev[i].op = "GetCached"].out
    ELSE "none"

\* The tuple a cache entry is stored under, besides the caller.
TupleOf(k) ==
    <<k.Shops, NormalizeQuestion(k.Question), k.TodayISO, k.MaxDays,
      k.SchemaHash>>

\* C8: on every cache hit the returned entry was stored by an earlier
\* request of the same caller with an equal tuple (allowlist, normalized
\* question, today, max_days_lookback, schema hash); requests whose tuples
\* differ never map to the same key material, and no entry of one caller is
\* returned to another.
C8_HitOnlyOwnEqualKey ==
    \A r \in Slots :
        /\ (HasKey(r) /\ prov # <<>>)
             => LET key == KeyOf(r)
                    ik  == ItemKey(key)
                IN  ik \in DOMAIN prov
                      => /\ prov[ik].key.UserSub = key.UserSub
                         /\ TupleOf(prov[ik].key) = TupleOf(key)
        /\ (HasKey(r) /\ GetOutcome(r) = "hit")
             => LET ik == ItemKey(KeyOf(r))
                IN  /\ ik \in DOMAIN prov
                    /\ prov[ik].n < served

\* A request hits the entry an earlier request of the same caller stored.
C8_Witness ==
    \E r \in Slots :
        /\ Done(r) /\ GetOutcome(r) = "hit"
        /\ prov[ItemKey(KeyOf(r))].key.UserSub = rq[r].sub
        /\ Body(r).cached

\* Two CacheKeys that are equal except for the order of the shops.
EqualUpToShopOrder(k1, k2) ==
    /\ k1.UserSub = k2.UserSub
    /\ Len(k1.Shops) = Len(k2.Shops)
    /\ Range(k1.Shops) = Range(k2.Shops)
    /\ k1.Question = k2.Question
    /\ k1.TodayISO = k2.TodayISO
    /\ k1.MaxDays = k2.MaxDays
    /\ k1.SchemaHash = k2.SchemaHash

\* C9: the cache key is built from the sorted allowlist: CacheKeys that are
\* equal except for the order of the shops have the same sort key, so a
\* request listing the same shops in another order hits the stored entry.
C9_ShopOrderIrrelevant ==
    \A r \in Slots :
        HasKey(r)
        => \A k \in DOMAIN prov :
             ( /\ prov[k].n < served
               /\ EqualUpToShopOrder(prov[k].key, KeyOf(r)) )
             => /\ MakeCacheSK(prov[k].key) = MakeCacheSK(KeyOf(r))
                /\ GetOutcome(r) \in {"none", "err", "hit"}

\* The cache key of the specification: the caller, the sorted allowlist,
\* the normalized question, today, the lookback and the schema hash.
SameCacheKey(k1, k2) ==
    /\ k1.UserSub = k2.UserSub
    /\ Len(k1.Shops) = Len(k2.Shops)
    /\ Range(k1.Shops) = Range(k2.Shops)
    /\ NormalizeQuestion(k1.Question) = NormalizeQuestion(k2.Question)
    /\ k1.TodayISO = k2.TodayISO
    /\ k1.MaxDays = k2.MaxDays
    /\ k1.SchemaHash = k2.SchemaHash

\* The entries earlier requests stored under the cache key of r.
EarlierSame(r) ==
    {k \in DOMAIN prov :
        prov[k].n < served /\ SameCacheKey(prov[k].key, KeyOf(r))}

ResultFields ==
    {"sql", "assumptions", "confidence", "result", "query_id",
     "scanned_bytes", "exec_ms"}

\* C10: a request that repeats, within the TTL, an earlier successful
\* request with an equal cache key (the entry is stored and the read
\* succeeds) answers type result with cached = true and with the sql,
\* assumptions, confidence, result, query_id, scanned_bytes and exec_ms of
\* the response that stored the entry, and invokes neither the model nor
\* the executor.
C10_RepeatIsServedFromCache ==
    \A r \in Slots :
        ( /\ HasKey(r)
          /\ GetOutcome(r) \in {"hit", "miss"}
          /\ EarlierSame(r) # {} )
        => \E k \in EarlierSame(r) :
             /\ Done(r)
             /\ RespType(r) = "result"
             /\ "cached" \in DOMAIN Body(r)
             /\ Body(r).cached
             /\ \A f \in ResultFields : Body(r)[f] = prov[k].body[f]
             /\ ModelCalls(r) = 0
             /\ ExecCalls(r) = 0

\* C11: every response of type result carries a boolean field cached, TRUE
\* when the result was served from the cache and FALSE when it was computed
\* in this request (also after a repair).
C11_ResultCarriesCached ==
    \A r \in Slots :
        RespType(r) = "result"
            => /\ "cached" \in DOMAIN Body(r)
               /\ Body(r).cached \in BOOLEAN
               /\ Body(r).cached = (GetOutcome(r) = "hit")

LastEvent(r) == rq[r].ev[Len(rq[r].ev)]

PutFailed(r) ==
    /\ Done(r) /\ rq[r].ev # <<>>
    /\ LastEvent(r).op = "PutCached" /\ LastEvent(r).out = "err"

\* C12: a failed cache read is handled exactly as a miss (the initial prompt
\* is built and the model is called, nothing is answered from the cache),
\* and a failed cache write after a successful run still answers type
\* result with the SQL and the result of that run.
C12_CacheFailuresDoNotBreak ==
    \A r \in Slots :
        /\ GetOutcome(r) = "err"
             => /\ rq[r].pc # "cacheget"
                /\ ModelCalls(r) >= 1
                /\ rq[r].pc = "model0"
                     => /\ rq[r].prompt = BuildPrompt(rq[r])
                        /\ Len(rq[r].ev) = 1
                        /\ rq[r].resp = <<>>
                /\ RespType(r) = "result" => "cached" \notin DOMAIN Body(r)
                /\ Done(r) => ~("error" \in DOMAIN Body(r)
                                  /\ Body(r).error = "cache_error")
        /\ PutFailed(r)
             => /\ RespType(r) = "result"
                /\ rq[r].resp[1].StatusCode = 200
                /\ Body(r) = ResultResponse(rq[r].finalLLM[1],
                                            rq[r].athRes[1]).Body
                /\ Body(r).sql = LastEvent(r).text
                /\ \E i \in DOMAIN rq[r].ev :
                     /\ rq[r].ev[i].op = "RunAthenaQuery"
                     /\ rq[r].ev[i].out = "ok"
                     /\ rq[r].ev[i].text = Body(r).sql

C12_Witness ==
    \E r \in Slots :
        /\ GetOutcome(r) = "err" /\ PutFailed(r) /\ RespType(r) = "result"

\* The invocation is past the tenancy lookup, which succeeded.
PastTenancy(r) ==
    /\ rq[r].pc \notin {"idle", "tenancy"}
    /\ rq[r].sub # ""
    /\ ~(Done(r) /\ "error" \in DOMAIN Body(r)
                 /\ Body(r).error = "shop_lookup_failed")

\* No schema, cache, model or executor call was made or is in flight.
NothingInvoked(r) ==
    /\ Done(r)
    /\ rq[r].ev = <<>>
    /\ rq[r].schemaText = "" /\ rq[r].today = ""
    /\ rq[r].prompt = [kind |-> "none"]
    /\ Calls(r, "GetCached") = 0 /\ ModelCalls(r) = 0
    /\ ExecCalls(r) = 0 /\ PutCalls(r) = 0

\* The shops of each caller, and the effective allowlist of each requested
\* list for each caller.
AllowedOf == [s \in Subs |-> GetAllowedShopsByUserSub(ShopItems(s))]

EffectiveOf ==
    [p \in {b.ShopIDs : b \in Bodies} \X Subs |->
        intersectAllowed(p[1], AllowedOf[p[2]])]

\* C17: a caller with no shops ends with the outcome no_shops, and a
\* non-empty requested list whose effective allowlist is empty ends with
\* no_allowed_shops_in_request; in both cases the schema provider, the
\* cache, the model and the executor are never invoked.
C17_NoShopsShortCircuit ==
    \A r \in Slots :
        PastTenancy(r)
        => LET allowed   == AllowedOf[rq[r].sub]
               requested == rq[r].body.ShopIDs
               effective == EffectiveOf[<<requested, rq[r].sub>>]
           IN  /\ allowed = <<>>
                    => /\ RespType(r) = "no_shops"
                       /\ NothingInvoked(r)
               /\ (allowed # <<>> /\ requested # <<>> /\ effective = <<>>)
                    => /\ Done(r)
                       /\ Body(r) = [error |-> "no_allowed_shops_in_request"]
                       /\ rq[r].resp[1].StatusCode = 403
                       /\ NothingInvoked(r)
               /\ RespType(r) = "no_shops" => allowed = <<>>
               /\ (Done(r) /\ Body(r) = [error |-> "no_allowed_shops_in_request"])
                    => (requested # <<>> /\ effective = <<>>)

\* A request for a shop of another tenant was refused.
C17_Witness ==
    \E r \in Slots :
        /\ PastTenancy(r) /\ Done(r)
        /\ rq[r].body.ShopIDs = <<ShopC>>
        /\ rq[r].resp[1].StatusCode = 403
        /\ NothingInvoked(r)

\* The repair specification: one caller who repeats one question, so that
\* every course of ExecuteWithSelfCorrection is taken with and without an
\* entry in the cache.
InitRepair ==
    /\ rq = [r \in OneSlot |-> IdleReq]
    /\ cache = <<>>
    /\ prov = <<>>
    /\ served = 0
    /\ now = 0
    /\ sql = <<>> /\ opt = <<>> /\ verdict = "" /\ vpc = "off"
    /\ env = [schemas |-> SchemaTexts,
              requests |-> {x \in Requests :
                              x.sub = Sub1 /\ x.body = AskRequest(QTotal, <<>>)},
              maxFixAttempts |-> MaxFixAttempts]
    /\ cc = <<>> /\ aq = <<>> /\ fx = <<>>

SpecRepair == InitRepair /\ [][Next]_vars

\* The events of an invocation with the given op, in order.
EventsOf(r, op) == SelectSeq(rq[r].ev, LAMBDA e : e.op = op)

\* The replies of the model that carried SQL, in order: attempt 0, then the
\* repair attempts.
SqlReplies(r) ==
    SelectSeq(rq[r].ev, LAMBDA e : e.op = "InvokeBedrockClaude" /\ e.out = "sql")

\* Attempt 0 and every repair attempt produced SQL and failed, by an error
\* of the executor or by a rejection of the validator.
Exhausted(r) ==
    /\ Done(r)
    /\ Len(SqlReplies(r)) = 1 + MaxFixAttempts
    /\ Len(EventsOf(r, "InvokeBedrockClaude")) = 1 + MaxFixAttempts
    /\ \/ LastEvent(r).op = "RunAthenaQuery" /\ LastEvent(r).out = "err"
       \/ LastEvent(r).op = "ValidateSQL" /\ LastEvent(r).out = "rejected"

\* The error the controller records for an attempt that ended with event e.
RecordedError(e) ==
    IF e.op = "ValidateSQL" THEN "fixed sql rejected: " \o e.err ELSE e.err

\* C21: if attempt 0 and all max_fix_attempts repair attempts fail, the
\* response is of type athena_failed, its last_sql is the SQL the last
\* repair attempt produced (with the assumptions and the confidence of that
\* reply) and its error is the error recorded for that last attempt.
C21_ExhaustedReturnsLast ==
    \A r \in Slots :
        Exhausted(r)
        => LET replies == SqlReplies(r)
               last    == replies[Len(replies)].llm[1]
           IN  /\ RespType(r) = "athena_failed"
               /\ Body(r).last_sql = last.SQL
               /\ Body(r).assumptions = last.Assumptions
               /\ Body(r).confidence = last.Confidence
               /\ Body(r).error = "athena failed after retries: "
                                      \o RecordedError(LastEvent(r))
               /\ PutCalls(r) = 0

\* The last repair attempt was rejected by the validator after the first
\* one failed in the engine, with different SQL in each attempt.
C21_Witness ==
    \E r \in Slots :
        /\ Exhausted(r)
        /\ LastEvent(r).op = "ValidateSQL"
        /\ ExecCalls(r) = MaxFixAttempts
        /\ SqlReplies(r)[1].text # SqlReplies(r)[1 + MaxFixAttempts].text
        /\ Body(r).last_sql = SqlReplies(r)[1 + MaxFixAttempts].text

\* The error of a model call that failed in transport.
TransportError == InvokeBedrockClaude([kind |-> "transport"]).err

\* The model call of a repair attempt was the last call of the invocation
\* and failed with the error err.
RepairCallFailed(r, err) ==
    /\ Done(r)
    /\ Len(EventsOf(r, "InvokeBedrockClaude")) >= 2
    /\ LastEvent(r).op = "InvokeBedrockClaude"
    /\ LastEvent(r).err = err

\* C25: when the model call of a repair attempt fails with a transport
\* error the loop is aborted, with no further call of the model or the
\* executor, and the athena_failed response carries as last_sql the most
\* recent candidate SQL before the failed call, with its assumptions and
\* confidence.
C25_TransportErrorKeepsCandidate ==
    \A r \in Slots :
        RepairCallFailed(r, TransportError)
        => LET replies == SqlReplies(r)
               prior   == replies[Len(replies)].llm[1]
           IN  /\ RespType(r) = "athena_failed"
               /\ Body(r).last_sql = prior.SQL
               /\ Body(r).assumptions = prior.Assumptions
               /\ Body(r).confidence = prior.Confidence

\* A transport error of a repair call ends the invocation with an
\* athena_failed response without SQL, and no call follows a failed call of
\* the model.
RepairTransportErrorAborts ==
    \A r \in Slots :
        /\ RepairCallFailed(r, TransportError)
             => /\ RespType(r) = "athena_failed"
                /\ Body(r).last_sql = ""
        /\ \A i \in DOMAIN rq[r].ev :
             (rq[r].ev[i].op = "InvokeBedrockClaude" /\ rq[r].ev[i].out = "err")
                 => i = Len(rq[r].ev)

\* The error of a model call whose reply holds no JSON object.
ProtocolError == InvokeBedrockClaude([kind |-> "nojson"]).err

\* C26: when the reply of the model in a repair attempt is a protocol
\* error, the controller treats it as a rejection of the current SQL,
\* records it as the last error and continues with the next attempt: the
\* invocation ends on such a reply only when it was the reply of the last
\* attempt, and then with the error of the exhausted loop.
C26_ProtocolErrorContinues ==
    \A r \in Slots :
        RepairCallFailed(r, ProtocolError)
        => /\ Len(EventsOf(r, "InvokeBedrockClaude")) = 1 + MaxFixAttempts
           /\ RespType(r) = "athena_failed"
           /\ Body(r).error = "athena failed after retries: " \o ProtocolError

\* The errors of the executor that report the terminal state FAILED.
EngineFailures == {AthenaErrorText("FAILED", "SYNTAX_ERROR", "q-3")}

\* C27: a repair attempt is started only after the executor reported a
\* query in the terminal state FAILED: an executor error of another kind
\* (TIMEOUT, CANCELLED, a transport error of the submission or of a poll, a
\* missing configuration) is followed by no call and no repair prompt.
C27_RepairOnlyAfterFailed ==
    \A r \in Slots :
        \A i \in DOMAIN rq[r].ev :
            ( /\ rq[r].ev[i].op = "RunAthenaQuery"
              /\ rq[r].ev[i].out = "err"
              /\ rq[r].ev[i].err \notin EngineFailures )
                => /\ i = Len(rq[r].ev)
                   /\ rq[r].pc # "fixmodel"

\* Event i of the invocation is a run of the executor in a repair attempt.
RepairRun(r, i) ==
    /\ rq[r].ev[i].op = "RunAthenaQuery"
    /\ \E j \in 1..(i - 1) : rq[r].ev[j].op = "RunAthenaQuery"

\* The reply of the model that precedes event i.
ReplyBefore(r, i) ==
    LET js == {j \in 1..(i - 1) : rq[r].ev[j].op = "InvokeBedrockClaude"}
        j  == CHOOSE k \in js : \A m \in js : m <= k
    IN  rq[r].ev[j].llm[1]

\* C28: when the wrap triggers in a repair attempt it wraps the freshly
\* fixed SQL, and the wrapped string SELECT * FROM (<fixed sql>) WHERE
\* dt >= date '<min_allowed>' is what is submitted to the executor; the
\* wrap is never applied to the SQL of the prior candidate.
C28_WrapsFixedSQL ==
    \A r \in Slots :
        /\ \A i \in DOMAIN rq[r].ev :
             RepairRun(r, i)
                => rq[r].ev[i].text
                     = WrapIfUnbounded(ReplyBefore(r, i).SQL,
                                       DtMin(rq[r].today, DefaultMaxDays))
        /\ rq[r].pc = "fixexec"
             => rq[r].cur.SQL \in {SqlReplies(r)[k].text :
                                     k \in DOMAIN SqlReplies(r)}

\* What the code does instead: the executor is handed the SQL of the
\* repair reply as the model wrote it.
RepairRunsUnwrapped ==
    \A r \in Slots :
        \A i \in DOMAIN rq[r].ev :
            RepairRun(r, i) => rq[r].ev[i].text = ReplyBefore(r, i).SQL

\* Event i is the validator's verdict on the SQL of a repair attempt.
RepairVerdict(r, i) ==
    /\ rq[r].ev[i].op = "ValidateSQL"
    /\ \E j \in 1..(i - 1) : rq[r].ev[j].op = "RunAthenaQuery"

\* C29: when the validator rejects the SQL of repair attempt i, the
\* executor is not called for that attempt, and the repair prompt of
\* attempt i+1 quotes the rejected SQL of attempt i as the previous SQL and
\* the validator's rejection reason, not the earlier engine error, as the
\* error.
C29_RejectionFeedsNextPrompt ==
    \A r \in Slots :
        \A i \in DOMAIN rq[r].ev :
            (RepairVerdict(r, i) /\ rq[r].ev[i].out = "rejected")
            => LET e == rq[r].ev[i]
               IN  /\ i < Len(rq[r].ev)
                        => rq[r].ev[i + 1].op = "InvokeBedrockClaude"
                   /\ (i = Len(rq[r].ev) /\ ~Done(r))
                        => /\ rq[r].pc = "fixmodel"
                           /\ rq[r].prompt.kind = "fix"
                           /\ rq[r].prompt.previousSQL = e.text
                           /\ rq[r].prompt.athenaError
                                = "fixed sql rejected: " \o e.err
                   /\ (i = Len(rq[r].ev) /\ Done(r))
                        => Exhausted(r)

\* The SQL of a repair attempt was rejected and the next repair prompt is
\* out, with SQL other than that of attempt 0 in it.
C29_Witness ==
    \E r \in Slots :
        /\ rq[r].pc = "fixmodel"
        /\ RepairVerdict(r, Len(rq[r].ev))
        /\ LastEvent(r).out = "rejected"
        /\ rq[r].prompt.previousSQL = LastEvent(r).text
        /\ rq[r].prompt.previousSQL # SqlReplies(r)[1].text
        /\ LastEvent(r).err # ""

\* C30: when the SQL of attempt i runs successfully, the controller returns
\* the reply of the model of that same attempt with the result of the
\* executor: the sql, the assumptions and the confidence in the response
\* and in the stored cache entry are those of the attempt whose SQL was
\* submitted in the successful call.
C30_ResultOfSameAttempt ==
    \A r \in Slots :
        \A i \in DOMAIN rq[r].ev :
            (rq[r].ev[i].op = "RunAthenaQuery" /\ rq[r].ev[i].out = "ok")
            => LET reply == ReplyBefore(r, i)
                   e     == rq[r].ev[i]
               IN  /\ e.text = reply.SQL
                   /\ rq[r].pc \in {"cacheput", "done"}
                   /\ rq[r].finalLLM = <<reply>>
                   /\ Done(r)
                        => /\ RespType(r) = "result"
                           /\ Body(r).sql = e.text
                           /\ Body(r).assumptions = reply.Assumptions
                           /\ Body(r).confidence = reply.Confidence
                           /\ Body(r).query_id
                                = rq[r].athRes[1].QueryExecutionID
                   /\ ( /\ Done(r)
                        /\ LastEvent(r).op = "PutCached"
                        /\ LastEvent(r).out = "ok" )
                        => LET c == UnmarshalCached(
                                      cache[ItemKey(KeyOf(r))].Payload)
                           IN  /\ c.SQL = e.text
                               /\ c.Assumptions = reply.Assumptions
                               /\ c.Confidence = reply.Confidence
                               /\ c.QueryID = rq[r].athRes[1].QueryExecutionID

\* The SQL of the first repair attempt, other than that of attempt 0 and
\* with another confidence, ran and its result was answered and stored.
C30_Witness ==
    \E r \in Slots :
        /\ Done(r) /\ RespType(r) = "result"
        /\ ExecCalls(r) = 2
        /\ LastEvent(r).op = "PutCached" /\ LastEvent(r).out = "ok"
        /\ Len(SqlReplies(r)) = 2
        /\ SqlReplies(r)[1].text # SqlReplies(r)[2].text
        /\ SqlReplies(r)[1].llm[1].Confidence # SqlReplies(r)[2].llm[1].Confidence
        /\ Body(r).sql = SqlReplies(r)[2].text
        /\ cache[ItemKey(KeyOf(r))].Payload.SQL = SqlReplies(r)[2].text

----------------------------------------------------------------------------
(* The cache specification: PutCached and GetCached against the cache     *)
(* table, with the clock and the store's TTL deletion                      *)

\* The clock advances by half a TTL; a run lasts MaxTicks steps of it.
TickStep == cacheTTLSeconds \div 2
MaxTicks == 4

\* The keys and the payloads of the calls.
CacheKeys ==
    { [UserSub |-> u, Shops |-> <<ShopA, ShopB>>, Question |-> QTotal,
       TodayISO |-> Today1, MaxDays |-> DefaultMaxDays,
       SchemaHash |-> SchemaHash(s)] : u \in {Sub1, Sub2}, s \in SchemaTexts }

CachePayloads ==
    { CachedResponseOf([SQL |-> Text(SqlScalar), Confidence |-> "0.9",
                        Assumptions |-> <<>>, NeedsClarification |-> FALSE,
                        ClarifyingQuestion |-> ""], o.res[1]) :
        o \in {x \in AthenaOutcomes : x.err = ""} }

CInit ==
    /\ cache = <<>>
    /\ now = 0
    /\ cc = [puts |-> <<>>, got |-> <<>>]
    /\ rq = <<>> /\ prov = <<>> /\ served = 0
    /\ sql = <<>> /\ opt = <<>> /\ verdict = "" /\ vpc = "off"
    /\ env = <<>> /\ aq = <<>> /\ fx = <<>>

CUnchanged == UNCHANGED <<rq, prov, served, vvars, env, aq, fx>>

\* A call of PutCached returns; cc.puts remembers the last value stored
\* under the key, when, and whether it was stored once (n = 1) or several
\* times in a row (n = 2).
CachePut ==
    /\ \E key \in CacheKeys, v \in CachePayloads, putOK \in BOOLEAN :
         LET k == ItemKey(key)
             n == IF k \in DOMAIN cc.puts /\ cc.puts[k].v = v
                  THEN 2 ELSE 1
         IN  /\ cache' = PutCached(cache, key, v, now, putOK)
             /\ cc' = IF putOK
                      THEN [puts |-> [x \in DOMAIN cc.puts \cup {k} |->
                                        IF x = k
                                        THEN [v |-> v, at |-> now, n |-> n]
                                        ELSE cc.puts[x]],
                            got |-> <<>>]
                      ELSE cc
    /\ UNCHANGED now
    /\ CUnchanged

\* A call of GetCached returns; cc.got is its result and when it was made.
CacheGet ==
    /\ \E key \in CacheKeys, getOK \in BOOLEAN :
         LET g == GetCached(cache, key, getOK)
         IN  cc' = [cc EXCEPT !.got = << [k |-> ItemKey(key), at |-> now,
                                          ok |-> g.ok, resp |-> g.resp,
                                          err |-> g.err] >>]
    /\ UNCHANGED <<cache, now>>
    /\ CUnchanged

\* Time passes.
Tick ==
    /\ now + TickStep <= MaxTicks * TickStep
    /\ now' = now + TickStep
    /\ UNCHANGED <<cache, cc>>
    /\ CUnchanged

\* The store's TTL process deletes an item whose ExpiresAt has passed, at a
\* time of its own choosing after the expiry; until then reads return it.
TTLDelete ==
    /\ \E k \in DOMAIN cache :
         /\ cache[k].ExpiresAt < now
         /\ cache' = [x \in DOMAIN cache \ {k} |-> cache[x]]
    /\ UNCHANGED <<now, cc>>
    /\ CUnchanged

CNext == CachePut \/ CacheGet \/ Tick \/ TTLDelete

SpecCache == CInit /\ [][CNext]_vars

\* C13: storing the same value twice under a key leaves what a single put
\* leaves, and a later read of the key returns that value as a hit at every
\* time before expires_at = created_at + TTL and does not return it once
\* expires_at has passed.
C13_PutIdempotentGetUntilTTL ==
    \A k \in DOMAIN cc.puts :
        LET p == cc.puts[k]
            expiresAt == p.at + cacheTTLSeconds
        IN  /\ k \in DOMAIN cache
                 => cache[k] = [Payload |-> MarshalCached(p.v),
                                ExpiresAt |-> expiresAt, CreatedAt |-> p.at]
            /\ \A i \in DOMAIN cc.got :
                 LET g == cc.got[i]
                 IN  (g.k = k /\ g.err = "")
                       => /\ g.at < expiresAt => g.ok /\ g.resp = <<p.v>>
                          /\ g.at > expiresAt => ~g.ok

----------------------------------------------------------------------------
(* The /ask specification in a deployment whose table schema changes       *)

\* The schema text before and after a column is added to the table.
SchemaTexts2 ==
    SchemaTexts \cup TextsOf({DailyMetricsWithUnits})

\* One caller repeating one body while the schema changes.
InitSchema ==
    /\ rq = [r \in OneSlot |-> IdleReq]
    /\ cache = <<>>
    /\ prov = <<>>
    /\ served = 0
    /\ now = 0
    /\ sql = <<>> /\ opt = <<>> /\ verdict = "" /\ vpc = "off"
    /\ env = [schemas |-> SchemaTexts2,
              requests |-> {x \in Requests :
                              x.sub = Sub1 /\ x.body = AskRequest(QTotal, <<>>)},
              maxFixAttempts |-> MaxFixAttempts]
    /\ cc = <<>> /\ aq = <<>> /\ fx = <<>>

SpecSchema == InitSchema /\ [][Next]_vars

\* k1 and k2 are equal in everything but the schema hash.
DifferOnlyInSchema(k1, k2) ==
    /\ k1.SchemaHash # k2.SchemaHash
    /\ [k1 EXCEPT !.SchemaHash = ""] = [k2 EXCEPT !.SchemaHash = ""]

\* C14: the schema hash is part of the key: a request whose compact schema
\* text differs from that of an earlier request, all else equal, does not
\* hit the entry the earlier request stored.
C14_SchemaChangeMisses ==
    \A r \in Slots :
        HasKey(r)
        => /\ \A k \in DOMAIN prov :
                DifferOnlyInSchema(prov[k].key, KeyOf(r))
                    => k # ItemKey(KeyOf(r))
           /\ GetOutcome(r) = "hit"
                => /\ ItemKey(KeyOf(r)) \in DOMAIN prov
                   /\ prov[ItemKey(KeyOf(r))].key.SchemaHash
                        = SchemaHash(rq[r].schemaText)
           /\ ( /\ GetOutcome(r) # "none"
                /\ \A k \in DOMAIN prov :
                     prov[k].key.SchemaHash # SchemaHash(rq[r].schemaText) )
                => GetOutcome(r) # "hit"

\* A request missed although an earlier request stored an entry under a key
\* that differs in the schema hash only.
C14_Witness ==
    \E r \in Slots :
        /\ HasKey(r) /\ GetOutcome(r) = "miss"
        /\ \E k \in DOMAIN prov :
             /\ DifferOnlyInSchema(prov[k].key, KeyOf(r))
             /\ prov[k].n < served
             /\ k \in DOMAIN cache

----------------------------------------------------------------------------
(* The /ask specification with the cancellation of the request context     *)

\* The external calls an invocation can be waiting in.
ExternalCalls ==
    {"tenancy", "schema", "cacheget", "model0", "exec0", "fixmodel",
     "fixexec", "cacheput"}

\* The context of the invocation is cancelled while a call is in flight:
\* that call and every later one return the context's error.
Cancel(r) ==
    /\ rq[r].pc \in ExternalCalls
    /\ rq[r].ctxErr = ""
    /\ Set(r, [rq[r] EXCEPT !.ctxErr = Canceled, !.cancelledAt = rq[r].pc])
    /\ UNCHANGED <<cache, prov, served, now>>
    /\ UNCHANGED vvars
    /\ UNCHANGED xvars

NextCancel == Next \/ \E r \in Slots : Cancel(r)

SpecCancel == Init /\ [][NextCancel]_vars

\* The responses Handle gives to the outcomes other than a cancellation:
\* input, tenancy, catalog and model errors, and the typed responses.
OtherOutcome(resp) ==
    \/ /\ "error" \in DOMAIN resp.Body /\ "type" \notin DOMAIN resp.Body
       /\ resp.Body.error \in {"invalid_json", "question_required",
                               "missing_user_sub", "shop_lookup_failed",
                               "no_allowed_shops_in_request",
                               "glue_get_table_failed", "bedrock_error"}
    \/ /\ "type" \in DOMAIN resp.Body
       /\ resp.Body.type \in {"no_shops", "result", "clarification",
                              "sql_rejected", "athena_failed"}

\* The calls a cancellation is considered at: tenancy lookup, catalog read,
\* cache get, model call, and the submission, polls and result pages of the
\* executor.
CancellableCalls == ExternalCalls \ {"cacheput"}

\* C15: if the cancellation signal fires at any external call of a request,
\* the request returns a cancellation outcome (a response that is none of
\* the responses of the other outcomes) and performs no cache put.
C15_CancellationOutcome ==
    \A r \in Slots :
        (Done(r) /\ rq[r].cancelledAt \in CancellableCalls)
            => /\ ~OtherOutcome(rq[r].resp[1])
               /\ PutCalls(r) = 0

\* The part of C15 about the cache.
CancelledNeverPuts ==
    \A r \in Slots :
        rq[r].cancelledAt \in CancellableCalls => PutCalls(r) = 0

----------------------------------------------------------------------------
(* The effective allowlist: GetAllowedShopsByUserSub then intersectAllowed *)

MaxRequested == 3
MaxItems == 2

\* Sequences over S of length at most n.
RECURSIVE SeqsUpTo(_, _)
SeqsUpTo(S, n) ==
    IF n = 0 THEN {<<>>}
    ELSE LET shorter == SeqsUpTo(S, n - 1)
         IN  shorter \cup {Append(s, x) : s \in shorter, x \in S}

\* The shop ids a body can ask for and the Shop attributes the index can
\* hold: other spellings of one shop, another shop, a blank.
RequestedShops ==
    {ShopA, "A.myshopify.com", " A.myshopify.com ", ShopB, ShopC, " "}
ItemShops == {ShopA, " a.myshopify.com ", "A.myshopify.com", ShopB, " "}

IInit ==
    /\ fx \in { [pc |-> "input", requested |-> rs, items |-> is,
                 allowed |-> <<>>, out |-> <<>>] :
                  rs \in SeqsUpTo(RequestedShops, MaxRequested),
                  is \in SeqsUpTo(ItemShops, MaxItems) }
    /\ rq = <<>> /\ cache = <<>> /\ prov = <<>> /\ served = 0 /\ now = 0
    /\ sql = <<>> /\ opt = <<>> /\ verdict = "" /\ vpc = "off"
    /\ env = <<>> /\ cc = <<>> /\ aq = <<>>

\* ask.go:63-78: the shops of the caller, then the effective allowlist.
Intersect ==
    /\ fx.pc = "input"
    /\ LET allowed == GetAllowedShopsByUserSub(fx.items)
       IN  fx' = [fx EXCEPT !.pc = "done", !.allowed = allowed,
                            !.out = intersectAllowed(fx.requested, allowed)]
    /\ UNCHANGED <<rq, cache, prov, served, now, env, cc, aq>>
    /\ UNCHANGED vvars

INext == Intersect

SpecIntersect == IInit /\ [][INext]_vars

\* What two shop ids are compared by.
ShopKey(s) == ToLower(TrimSpace(s))

\* C16: the effective allowlist is the requested shops that are allowed,
\* compared case-insensitively and trimmed: every element matches an
\* allowed shop, no two elements are equal ignoring case, each element has
\* the spelling of its first occurrence in the request, every requested
\* shop that is allowed is in it, and an empty request yields the whole
\* allowlist.
C16_EffectiveAllowlist ==
    fx.pc = "done"
    => LET req == fx.requested
           allowed == fx.allowed
           out == fx.out
       IN  /\ req = <<>> => out = allowed
           /\ \A i \in DOMAIN out :
                \E j \in DOMAIN allowed : ShopKey(out[i]) = ShopKey(allowed[j])
           /\ \A i, j \in DOMAIN out :
                i # j => ShopKey(out[i]) # ShopKey(out[j])
           /\ req # <<>>
                => /\ \A i \in DOMAIN out :
                        \E j \in DOMAIN req :
                            /\ out[i] = TrimSpace(req[j])
                            /\ \A j2 \in 1..(j - 1) :
                                 ShopKey(req[j2]) # ShopKey(req[j])
                   /\ \A j \in DOMAIN req :
                        ( /\ ShopKey(req[j]) # ""
                          /\ \E a \in DOMAIN allowed :
                               ShopKey(allowed[a]) = ShopKey(req[j]) )
                        => \E i \in DOMAIN out : ShopKey(out[i]) = ShopKey(req[j])
                   /\ \A i1, i2 \in DOMAIN out :
                        i1 < i2
                        => \E j1, j2 \in DOMAIN req :
                             /\ j1 < j2
                             /\ ShopKey(req[j1]) = ShopKey(out[i1])
                             /\ ShopKey(req[j2]) = ShopKey(out[i2])

\* A request that names one allowed shop twice in different spellings, and
\* a shop that is not allowed.
C16_Witness ==
    /\ fx.pc = "done"
    /\ fx.requested = <<" A.myshopify.com ", ShopA, ShopC>>
    /\ fx.allowed = <<ShopA, ShopB>>
    /\ fx.out = <<"A.myshopify.com">>

----------------------------------------------------------------------------
(* The executor: one call of RunAthenaQuery against the query engine       *)

\* Durations are in ticks of 100 ms.  The defaults of RunAthenaQuery: 25 s,
\* 700 ms, 200 rows.
DefaultMaxWait == 250
DefaultPollInterval == 7
DefaultMaxResultRows == 200

\* The engine returns at most PageSize rows per result page (MaxResults of
\* GetQueryResults) and a result set has at most MaxDataRows data rows.
PageSize == 4
MaxDataRows == 9

\* A call of the engine API takes no time or one tick.
CallTicks == {0, 1}

\* The AthenaRunOptions of the calls: all zero but the configuration (every
\* default applies), small explicit limits, and a missing database.
AthenaOption(db, wait, poll, rows) ==
    [Database |-> db, Workgroup |-> "primary",
     OutputLocation |-> "s3://bucket/athena-results/",
     MaxWait |-> wait, PollInterval |-> poll, MaxResultRows |-> rows]

AthenaOptions ==
    { AthenaOption("analytics", 0, 0, 0), AthenaOption(" ", 0, 0, 0) }
    \cup { AthenaOption("analytics", 2, 1, rows) : rows \in {1, 2} }

\* The states GetQueryExecution can report.
EngineStates == {"QUEUED", "RUNNING", "SUCCEEDED", "FAILED", "CANCELLED"}

\* The result set of a query with k data rows: the header row, whose cells
\* are the column names, then the data rows in the order of the engine.
ResultColumns == <<"n">>
EngineRows(k) ==
    [i \in 1..(k + 1) |->
        [Data |-> IF i = 1 THEN ResultColumns ELSE <<ToString(i - 1)>>]]

IntTexts == {ToString(i) : i \in 0..(MaxDataRows + 1)}
FloatTexts == {"12345.67"}

\* coerceScalar: nil for a blank cell, else int64, else float64, else the
\* string.
coerceScalar(v) ==
    LET t == TrimSpace(v)
    IN  IF t = "" THEN GoNil
        ELSE IF t \in IntTexts THEN GoInt(t)
        ELSE IF t \in FloatTexts THEN GoFloat(t)
        ELSE GoStr(t)

\* part_005:324-332: the map of one row, cells beyond the columns skipped.
RowMap(row, cols) ==
    LET cis == DOMAIN cols \cap DOMAIN row.Data
    IN  [c \in {cols[ci] : ci \in cis} |->
            coerceScalar(row.Data[CHOOSE ci \in cis :
                                    /\ cols[ci] = c
                                    /\ \A cj \in cis : cols[cj] = c => cj <= ci])]

RECURSIVE ConvertRows(_, _, _, _, _)
\* part_005:316-334: the loop over allRows from index i (0-based), skipping
\* the first row and stopping at maxRows output rows.
ConvertRows(allRows, i, outRows, cols, maxRows) ==
    IF i >= Len(allRows) THEN outRows
    ELSE IF i = 0 THEN ConvertRows(allRows, i + 1, outRows, cols, maxRows)
    ELSE IF Len(outRows) >= maxRows THEN outRows
    ELSE ConvertRows(allRows, i + 1,
                     Append(outRows, RowMap(allRows[i + 1], cols)),
                     cols, maxRows)

\* The state of the call before RunAthenaQuery is entered.
AthenaCall(o) ==
    [pc |-> "input", opt |-> o, clock |-> 0, deadline |-> 0, qid |-> "",
     state |-> "", polls |-> 0, lastPollAt |-> 0, k |-> 0, fetched |-> 0,
     pages |-> 0, nextToken |-> "", allRows |-> <<>>, colInfo |-> <<>>,
     res |-> <<>>, err |-> ""]

AInit ==
    /\ aq \in {AthenaCall(o) : o \in AthenaOptions}
    /\ rq = <<>> /\ cache = <<>> /\ prov = <<>> /\ served = 0 /\ now = 0
    /\ sql = <<>> /\ opt = <<>> /\ verdict = "" /\ vpc = "off"
    /\ env = <<>> /\ cc = <<>> /\ fx = <<>>

AUnchanged ==
    UNCHANGED <<rq, cache, prov, served, now, env, cc, fx, sql, opt,
                verdict, vpc>>

AthenaReturn(a, res, err) == [a EXCEPT !.pc = "done", !.res = res, !.err = err]

\* part_005:227-235: the defaults of the zero options.
WithDefaults(o) ==
    [o EXCEPT !.MaxWait = IF @ = 0 THEN DefaultMaxWait ELSE @,
              !.PollInterval = IF @ = 0 THEN DefaultPollInterval ELSE @,
              !.MaxResultRows = IF @ = 0 THEN DefaultMaxResultRows ELSE @]

\* part_005:218-249: the configuration is checked, the defaults are applied
\* and the query is submitted.
Submit ==
    /\ aq.pc = "input"
    /\ aq' = IF TrimSpace(aq.opt.Database) = ""
             THEN AthenaReturn(aq, <<>>, "missing athena database")
             ELSE [aq EXCEPT !.pc = "submit", !.opt = WithDefaults(@)]
    /\ AUnchanged

LoopTop_NoDeadline(a) ==
    [a EXCEPT !.pc = "poll", !.polls = @ + 1, !.lastPollAt = a.clock]

\* part_005:255-261: the top of the poll loop: past the deadline the call
\* returns TIMEOUT, otherwise the state of the query is asked for.
LoopTop(a) ==
    IF a.clock > a.deadline
    THEN AthenaReturn(a, <<>>,
                      AthenaErrorText("TIMEOUT", "query timed out", a.qid))
    ELSE [a EXCEPT !.pc = "poll", !.polls = @ + 1, !.lastPollAt = a.clock]

\* part_005:248-254: StartQueryExecution returned; the deadline is MaxWait
\* after its return.
SubmitReturn ==
    /\ aq.pc = "submit"
    /\ \E d \in CallTicks, ok \in BOOLEAN :
         LET a1 == [aq EXCEPT !.clock = @ + d]
         IN  aq' = IF ~ok
                   THEN AthenaReturn(a1, <<>>,
                            "athena StartQueryExecution: throttled")
                   ELSE LoopTop([a1 EXCEPT !.qid = "q-1",
                                   !.deadline = a1.clock + a1.opt.MaxWait])
    /\ AUnchanged

\* part_005:297-309: GetQueryResults is asked for the page after nextToken.
FetchPage(a) == [a EXCEPT !.pc = "page"]

\* part_005:262-276: GetQueryExecution returned.  On SUCCEEDED the engine
\* has a result set, of k data rows.
PollReturn ==
    /\ aq.pc = "poll"
    /\ \E d \in CallTicks :
         LET a1 == [aq EXCEPT !.clock = @ + d]
         IN  \/ aq' = AthenaReturn(a1, <<>>,
                          "athena GetQueryExecution: throttled")
             \/ \E s \in EngineStates :
                  LET a2 == [a1 EXCEPT !.state = s]
                  IN  CASE s = "SUCCEEDED" ->
                             \E k \in 0..MaxDataRows :
                                 aq' = FetchPage([a2 EXCEPT !.k = k])
                        [] s \in {"FAILED", "CANCELLED"} ->
                             aq' = AthenaReturn(a2, <<>>,
                                     AthenaErrorText(s, "engine: " \o s, a2.qid))
                        [] OTHER -> aq' = [a2 EXCEPT !.pc = "sleep"]
    /\ AUnchanged

\* part_005:275: time.Sleep(PollInterval) returned, then the loop top.
SleepReturn ==
    /\ aq.pc = "sleep"
    /\ aq' = LoopTop([aq EXCEPT !.clock = @ + aq.opt.PollInterval])
    /\ AUnchanged

Finalize_KeepHeader(a) ==
    LET cols == a.colInfo
    IN  AthenaReturn(a, << AthenaResult(a.qid, cols,
                             ConvertRows(<<a.allRows[1]>> \o a.allRows, 0,
                                         <<>>, cols, a.opt.MaxResultRows),
                             2048, 850) >>, "")

\* part_005:311-354: the columns, the rows without the header and capped at
\* MaxResultRows, and the statistics of the execution.
Finalize(a) ==
    LET cols == a.colInfo
    IN  AthenaReturn(a, << AthenaResult(a.qid, cols,
                             ConvertRows(a.allRows, 0, <<>>, cols,
                                         a.opt.MaxResultRows),
                             2048, 850) >>, "")

\* part_005:291-309: GetQueryResults returned a page: the rows after the
\* ones fetched so far, and a token when more remain.
PageReturn ==
    /\ aq.pc = "page"
    /\ \/ aq' = AthenaReturn(aq, <<>>, "athena GetQueryResults: throttled")
       \/ LET all   == EngineRows(aq.k)
              upto  == IF aq.fetched + PageSize < Len(all)
                       THEN aq.fetched + PageSize ELSE Len(all)
              token == IF upto < Len(all) THEN ToString(upto) ELSE ""
              a1    == [aq EXCEPT
                          !.colInfo = IF @ = <<>> THEN ResultColumns ELSE @,
                          !.allRows = @ \o SubSeq(all, aq.fetched + 1, upto),
                          !.fetched = upto, !.pages = @ + 1]
          IN  aq' = IF token = "" THEN Finalize(a1)
                    ELSE IF Len(a1.allRows) > a1.opt.MaxResultRows + 5
                    THEN Finalize([a1 EXCEPT !.nextToken = token])
                    ELSE FetchPage([a1 EXCEPT !.nextToken = token])
    /\ AUnchanged

ANext == Submit \/ SubmitReturn \/ PollReturn \/ SleepReturn \/ PageReturn

SpecAthena == AInit /\ [][ANext]_vars

TerminalStates == {"SUCCEEDED", "FAILED", "CANCELLED"}

TimedOut(a) ==
    a.pc = "done"
    /\ a.err = AthenaErrorText("TIMEOUT", "query timed out", a.qid)

\* C18: after the submission the executor polls the engine until the state
\* is SUCCEEDED, FAILED or CANCELLED or until the deadline, max_wait after
\* the submission, has passed; past the deadline it issues no further poll
\* and returns AthenaError TIMEOUT with the query id; it returns a result
\* only after the state SUCCEEDED.
C18_PollUntilTerminalOrDeadline ==
    aq.qid # ""
    => /\ aq.deadline - aq.opt.MaxWait \in CallTicks
       /\ aq.polls > 0 => aq.lastPollAt <= aq.deadline
       /\ aq.pc = "poll" => aq.state \notin TerminalStates
       /\ aq.pc = "sleep"
            => aq.state \notin TerminalStates /\ aq.state # ""
       /\ aq.pc = "page" => aq.state = "SUCCEEDED"
       /\ aq.res # <<>>
            => /\ aq.state = "SUCCEEDED" /\ aq.err = ""
               /\ aq.res[1].QueryExecutionID = aq.qid
       /\ TimedOut(aq)
            => /\ aq.clock > aq.deadline
               /\ aq.state \notin TerminalStates
               /\ aq.qid = "q-1" /\ aq.res = <<>>
       /\ aq.pc = "done"
            => \/ aq.res # <<>>
               \/ TimedOut(aq)
               \/ /\ aq.state \in {"FAILED", "CANCELLED"}
                  /\ aq.err = AthenaErrorText(aq.state, "engine: " \o aq.state,
                                              aq.qid)
               \/ aq.err \in {"athena GetQueryExecution: throttled",
                              "athena GetQueryResults: throttled"}

\* The query was still running when the deadline passed, after several
\* polls.
C18_Witness ==
    /\ TimedOut(aq) /\ aq.polls >= 2 /\ aq.state = "RUNNING"
    /\ aq.opt.MaxWait = DefaultMaxWait

\* The row the executor must give for data row i of the engine, and what
\* the header row would convert to.
DataRow(i) == [n |-> GoInt(ToString(i))]
HeaderAsRow == [n |-> GoStr("n")]

\* C19: for a successful run whose result set has k data rows over its
\* pages, the header row is never among the output rows, the output rows
\* are the first min(k, max_rows) data rows in the order of the engine, and
\* no row beyond max_rows is exposed, also when more result pages exist.
C19_RowsWithoutHeaderCapped ==
    aq.res # <<>>
    => LET rows == aq.res[1].Rows
           max  == aq.opt.MaxResultRows
           n    == IF aq.k < max THEN aq.k ELSE max
       IN  /\ Len(rows) = n
           /\ Len(rows) <= max
           /\ \A i \in DOMAIN rows : rows[i] = DataRow(i)
           /\ \A i \in DOMAIN rows : rows[i] # HeaderAsRow
           /\ aq.res[1].Columns = ResultColumns

\* The executor stopped fetching although the engine had more pages, and
\* gave max_rows rows.
C19_Witness ==
    /\ aq.res # <<>>
    /\ aq.nextToken # "" /\ aq.fetched < aq.k + 1 /\ aq.pages >= 2
    /\ Len(aq.res[1].Rows) = aq.opt.MaxResultRows
    /\ aq.k > aq.opt.MaxResultRows

\* All the pages of a result set larger than one page were fetched and fewer
\* rows than max_rows were given.
AllPagesFetched ==
    /\ aq.res # <<>>
    /\ aq.pages >= 2 /\ aq.fetched = aq.k + 1
    /\ Len(aq.res[1].Rows) = aq.k

----------------------------------------------------------------------------
(* The shape of a result: one call of ShapeResult                          *)

MaxCols == 2
MaxRows == 2

\* Column names, and rows as the executor builds them: a cell for each
\* column or, when the engine sent fewer cells, for some.
ShapeColumns == {"n", "m"}
ShapeRows ==
    { <<>>, [n |-> GoInt("1")], [n |-> GoNil],
      [n |-> GoFloat("12345.67"), m |-> GoStr(ShopA)], [m |-> GoInt("2")] }

ShapeInputs ==
    { p \in SeqsUpTo(ShapeColumns, MaxCols) \X SeqsUpTo(ShapeRows, MaxRows) :
        \A i \in DOMAIN p[2] : DOMAIN p[2][i] \subseteq Range(p[1]) }

SInit ==
    /\ fx \in { [pc |-> "input", columns |-> p[1], rows |-> p[2],
                 out |-> <<>>] : p \in ShapeInputs }
    /\ rq = <<>> /\ cache = <<>> /\ prov = <<>> /\ served = 0 /\ now = 0
    /\ sql = <<>> /\ opt = <<>> /\ verdict = "" /\ vpc = "off"
    /\ env = <<>> /\ cc = <<>> /\ aq = <<>>

\* ask.go:115 and ask.go:241: the result member of a response.
Shape ==
    /\ fx.pc = "input"
    /\ fx' = [fx EXCEPT !.pc = "done",
                        !.out = ShapeResult(fx.columns, fx.rows)]
    /\ UNCHANGED <<rq, cache, prov, served, now, env, cc, aq>>
    /\ UNCHANGED vvars

SNext == Shape

SpecShape == SInit /\ [][SNext]_vars

\* C20: ShapeResult gives kind scalar with the value rows[0][columns[0]]
\* exactly when there is exactly one row and exactly one column; in every
\* other case, an empty result included, kind table and no value; the
\* columns and the rows are given unchanged in both cases.
C20_ShapeResult ==
    fx.pc = "done"
    => LET s == fx.out
           one == Len(fx.rows) = 1 /\ Len(fx.columns) = 1
       IN  /\ s.columns = fx.columns
           /\ s.rows = fx.rows
           /\ DOMAIN s \subseteq {"columns", "rows", "kind", "value"}
           /\ one => /\ s.kind = "scalar"
                     /\ "value" \in DOMAIN s
                     /\ fx.columns[1] \in DOMAIN fx.rows[1]
                          => s.value = fx.rows[1][fx.columns[1]]
                     /\ fx.columns[1] \notin DOMAIN fx.rows[1]
                          => s.value = GoNil
           /\ ~one => s.kind = "table" /\ "value" \notin DOMAIN s
           /\ s.kind = "scalar" => one

\* A one-row result of two columns is a table; so is the empty result.
C20_Witness ==
    /\ fx.pc = "done"
    /\ Len(fx.rows) = 1 /\ Len(fx.columns) = 2
    /\ fx.out.kind = "table" /\ "value" \notin DOMAIN fx.out

ScalarShaped ==
    /\ fx.pc = "done" /\ fx.out.kind = "scalar"
    /\ fx.out.value = GoInt("1")


----------------------------------------------------------------------------
(* The schema specification: LoadTableSchema and CompactSchemaText on two *)
(* answers of the catalog that hold the same columns and partition keys   *)
(* in a different order.                                                  *)

MaxColumns == 3
MaxPartitions == 2

\* The columns and partition keys the catalog can list. The catalog does
\* not refuse a table that lists a name twice.
CatalogColumns ==
    {Column("dt", "date"), Column("dt", "string"), Column("shop_id", "string")}

CatalogPartitions == {Column("dt", "date"), Column("shop_id", "string")}

\* Two answers of the catalog for one table, the second a rearrangement of
\* the first.
\* A list of at most n of the columns in S, with a rearrangement of it.
Rearranged(S, n) ==
    UNION { { <<x, y>> : y \in PermsOf(x) } : x \in SeqsUpTo(S, n) }

CatalogPairs ==
    { <<GlueTable(DailyMetricsTable, Location, c[1], p[1]),
        GlueTable(DailyMetricsTable, Location, c[2], p[2])>> :
        c \in Rearranged(CatalogColumns, MaxColumns),
        p \in Rearranged(CatalogPartitions, MaxPartitions) }

GInit ==
    /\ fx \in { [pc |-> "first", tables |-> pair, loaded |-> <<>>] :
                  pair \in CatalogPairs }
    /\ rq = <<>> /\ cache = <<>> /\ prov = <<>> /\ served = 0 /\ now = 0
    /\ sql = <<>> /\ opt = <<>> /\ verdict = "" /\ vpc = "off"
    /\ env = <<>> /\ cc = <<>> /\ aq = <<>>

\* ask.go:81-95: the schema, its compact text and the hash of the text.
LoadSchema ==
    /\ fx.pc \in {"first", "second"}
    /\ \E l \in LoadTableSchema(fx.tables[IF fx.pc = "first" THEN 1 ELSE 2],
                                GlueDatabase, DailyMetricsTable) :
         LET text == CompactSchemaText(l.schema[1])
         IN  fx' = [fx EXCEPT
                      !.pc = IF fx.pc = "first" THEN "second" ELSE "done",
                      !.loaded = Append(@, [schema |-> l.schema[1],
                                            text   |-> text,
                                            hash   |-> SchemaHash(text)])]
    /\ UNCHANGED <<rq, cache, prov, served, now, env, cc, aq>>
    /\ UNCHANGED vvars

GNext == LoadSchema

SpecGlue == GInit /\ [][GNext]_vars

\* No name is listed twice.
DistinctNames(cols) ==
    \A i, j \in DOMAIN cols : cols[i].Name = cols[j].Name => i = j

----------------------------------------------------------------------------
(* The catalog specification: the handler when the catalog can answer     *)
(* GetTable with a table that lists no columns.                           *)

\* The table of the warehouse with an empty column list.
NoColumnsTable ==
    GlueTable(DailyMetricsTable, Location, <<>>,
              <<Column("dt", "date"), Column("shop_id", "string")>>)

InitCatalog ==
    /\ rq = [r \in OneSlot |-> IdleReq]
    /\ cache = <<>>
    /\ prov = <<>>
    /\ served = 0
    /\ now = 0
    /\ sql = <<>> /\ opt = <<>> /\ verdict = "" /\ vpc = "off"
    /\ env = [schemas |-> TextsOf({DailyMetrics, NoColumnsTable}),
              requests |-> {x \in Requests :
                              x.sub = Sub1 /\ x.body = AskRequest(QTotal, <<>>)},
              maxFixAttempts |-> MaxFixAttempts]
    /\ cc = <<>> /\ aq = <<>> /\ fx = <<>>

SpecCatalog == InitCatalog /\ [][Next]_vars

\* The schema step of the request ended with the text of a table without
\* columns.
LoadedNoColumns(r) == rq[r].schemaText \in TextsOf({NoColumnsTable})

\* C23: when the schema provider fails, the controller answers with an
\* error at once, without a call of the cache, the model or the executor,
\* both when the call of the catalog fails and when the catalog returns a
\* table with no columns.
C23_SchemaUnavailable ==
    \A r \in Slots :
        /\ (Done(r) /\ "error" \in DOMAIN Body(r)
                    /\ Body(r).error = "glue_get_table_failed")
             => /\ rq[r].resp[1].StatusCode = 500
                /\ rq[r].ev = <<>>
                /\ rq[r].prompt = [kind |-> "none"]
        /\ LoadedNoColumns(r)
             => /\ Done(r)
                /\ "error" \in DOMAIN Body(r)
                /\ rq[r].ev = <<>>
                /\ rq[r].prompt = [kind |-> "none"]

\* A failed call of the catalog ends the request with the error and
\* nothing else was called.
CatalogFailureShortCircuits ==
    \A r \in Slots :
        (Done(r) /\ "error" \in DOMAIN Body(r)
                 /\ Body(r).error = "glue_get_table_failed")
            => /\ rq[r].resp[1].StatusCode = 500
               /\ rq[r].ev = <<>>
               /\ rq[r].prompt = [kind |-> "none"]


----------------------------------------------------------------------------
(* The question specification: NormalizeQuestion and MakeCacheSK on two   *)
(* questions that differ in letter case and in whitespace only.           *)

MaxQuestionLen == 4

\* The lexemes of a question: two spellings of one word, another word, a
\* space and a tab.
QuestionLexemes == {W("Total"), W("total"), W("REVENUE?"), SP, TAB}

\* The letters of a word without their case.
Caseless(w) ==
    CASE w \in {"Total", "total"}                   -> "TOTAL"
      [] w \in {"REVENUE?", "Revenue?", "revenue?"} -> "REVENUE?"
      [] OTHER                                      -> w

RECURSIVE LettersAcc(_, _, _)
\* The words of a question without their case, with a mark where a run of
\* whitespace separates two of them.
LettersAcc(s, started, gap) ==
    IF s = <<>> THEN <<>>
    ELSE IF IsWS(Head(s)) THEN LettersAcc(Tail(s), started, started)
    ELSE (IF gap THEN <<"_">> ELSE <<>>)
            \o <<Caseless(Head(s).v)>> \o LettersAcc(Tail(s), TRUE, FALSE)

Letters(q) == LettersAcc(q, FALSE, FALSE)

\* The lexemes of a question spelled plainly.
PlainLexemes == {W("total"), W("REVENUE?"), SP}

\* Two questions of the same letters, the second in any case and with any
\* whitespace.
QuestionPairs ==
    { p \in SeqsUpTo(PlainLexemes, MaxQuestionLen - 1)
              \X SeqsUpTo(QuestionLexemes, MaxQuestionLen) :
        Letters(p[1]) = Letters(p[2]) }

RECURSIVE RunsAcc(_, _)
\* strings.Fields, each field as the lexemes it is made of.
RunsAcc(s, run) ==
    IF s = <<>> THEN (IF run = <<>> THEN <<>> ELSE <<run>>)
    ELSE IF IsWS(Head(s))
         THEN (IF run = <<>> THEN <<>> ELSE <<run>>) \o RunsAcc(Tail(s), <<>>)
         ELSE RunsAcc(Tail(s), Append(run, Head(s)))

RECURSIVE JoinRuns(_)
JoinRuns(runs) ==
    IF runs = <<>> THEN <<>>
    ELSE IF Len(runs) = 1 THEN runs[1]
    ELSE runs[1] \o <<SP>> \o JoinRuns(Tail(runs))

\* The string NormalizeQuestion returns, as lexemes.
Normalized(q) == JoinRuns(RunsAcc(ToLowerSeq(TrimSpaceSeq(q)), <<>>))

\* The cache key of a caller for a question.
QuestionKey(q) ==
    [UserSub |-> Sub1, Shops |-> <<"a.myshopify.com">>, Question |-> q,
     TodayISO |-> Today1, MaxDays |-> DefaultMaxDays,
     SchemaHash |-> SchemaHash(CHOOSE s \in SchemaTexts : TRUE)]

QInit ==
    /\ fx \in { [pc |-> "input", q |-> p[1], v |-> p[2],
                 nq |-> "", nv |-> "", again |-> "", skq |-> "", skv |-> ""] :
                  p \in QuestionPairs }
    /\ rq = <<>> /\ cache = <<>> /\ prov = <<>> /\ served = 0 /\ now = 0
    /\ sql = <<>> /\ opt = <<>> /\ verdict = "" /\ vpc = "off"
    /\ env = <<>> /\ cc = <<>> /\ aq = <<>>

\* part_005:64-69 on the two questions, and on the result for the second.
Normalize ==
    /\ fx.pc = "input"
    /\ fx' = [fx EXCEPT !.pc = "normalized",
                        !.nq = NormalizeQuestion(fx.q),
                        !.nv = NormalizeQuestion(fx.v),
                        !.again = NormalizeQuestion(Normalized(fx.v))]
    /\ UNCHANGED <<rq, cache, prov, served, now, env, cc, aq>>
    /\ UNCHANGED vvars

\* part_005:87-97 on the keys of the two questions.
MakeKeys ==
    /\ fx.pc = "normalized"
    /\ fx' = [fx EXCEPT !.pc = "done",
                        !.skq = MakeCacheSK(QuestionKey(fx.q)),
                        !.skv = MakeCacheSK(QuestionKey(fx.v))]
    /\ UNCHANGED <<rq, cache, prov, served, now, env, cc, aq>>
    /\ UNCHANGED vvars

QNext == Normalize \/ MakeKeys

SpecQuestion == QInit /\ [][QNext]_vars

\* C24: NormalizeQuestion lowercases the question, collapses every run of
\* whitespace to one space and leaves no leading or trailing whitespace;
\* it is idempotent, and two questions that differ only in letter case or
\* in whitespace yield the same cache key.
C24_NormalizeQuestion ==
    fx.pc = "done"
    => LET n == Normalized(fx.v)
       IN  /\ Text(n) = fx.nv
           /\ \A i \in DOMAIN n :
                /\ ToLower(n[i].v) = n[i].v
                /\ IsWS(n[i]) => /\ n[i] = SP
                                 /\ 1 < i /\ i < Len(n)
                                 /\ ~IsWS(n[i + 1])
           /\ Letters(n) = Letters(fx.v)
           /\ fx.again = fx.nv
           /\ fx.nv = fx.nq
           /\ fx.skv = fx.skq

\* A question in mixed case with tabs, runs of whitespace and whitespace at
\* its ends was normalized, and its key is that of the plain spelling.
C24_Witness ==
    /\ fx.pc = "done"
    /\ fx.q = <<W("total"), SP, W("REVENUE?")>>
    /\ fx.v = <<W("Total"), SP, TAB, W("REVENUE?")>>
    /\ fx.nv = "total revenue?"
    /\ fx.skv = fx.skq


----------------------------------------------------------------------------
(* The partition check of the validator: flag, lookback bound, first match *)

\* The reasons ValidateSQL returns before it reaches the partition check
\* (sql_validator.go:25-48).
EarlierReasons ==
    {"empty sql", "semicolon not allowed", "comments not allowed",
     "only SELECT queries are allowed"}
        \cup {"disallowed keyword: " \o block[i] : i \in 1..Len(block)}

DTLowerBoundMissing ==
    "dt filter must include a lower bound (dt >= ... or dt BETWEEN ...)"

DTFilterMissing == "missing required dt filter"

\* The SQL got as far as the partition check.
ReachedPartitionCheck == vpc = "done" /\ verdict \notin EarlierReasons

HasLowerBoundForm(s) == FindFrom(betweenRe, s, 1).ok \/ FindFrom(geRe, s, 1).ok

\* C32: a SQL in which dt appears but no lower-bound form matches is
\* rejected with DTLowerBoundMissing whether require_partition_filter is
\* true or false; a SQL in which dt does not appear is rejected with
\* DTFilterMissing exactly when require_partition_filter is true.
C32_RejectionsByFlag ==
    ReachedPartitionCheck =>
        /\ (MatchString(dtRe, LowSQL) /\ ~HasLowerBoundForm(LowSQL))
              => verdict = DTLowerBoundMissing
        /\ ~MatchString(dtRe, LowSQL)
              => (verdict = DTFilterMissing <=> opt.RequireDTFilter)

\* With the flag set the two rejections are told apart as stated.
RejectionsWithFlagSet ==
    (ReachedPartitionCheck /\ opt.RequireDTFilter) =>
        /\ (MatchString(dtRe, LowSQL) /\ ~HasLowerBoundForm(LowSQL))
              => verdict = DTLowerBoundMissing
        /\ ~MatchString(dtRe, LowSQL) => verdict = DTFilterMissing

\* With the flag clear no partition rejection is produced at all.
NoPartitionRejectionWithFlagClear ==
    (vpc = "done" /\ ~opt.RequireDTFilter)
        => verdict \notin {DTLowerBoundMissing, DTFilterMissing}


\* Every reason the partition check can give, for the lookbacks in use.
PartitionReasons ==
    {DTLowerBoundMissing, DTFilterMissing}
        \cup UNION { { LookbackError(d, n),
                       "dt lower bound invalid: " \o d,
                       "dt BETWEEN has invalid start date: " \o d }
                     : d \in ShapeStrings, n \in {1, DefaultMaxDays} }

PassedPartitionCheck ==
    /\ ReachedPartitionCheck
    /\ verdict \notin PartitionReasons

\* The positions of the column name dt in s.
DtPositions(s) == {i \in 1..Len(s) : IsWord(s[i]) /\ s[i].v = "dt"}

\* The only mention of dt in s is the predicate dt >= date 'D'.
OnlyGeDate(s, D) ==
    /\ Cardinality(DtPositions(s)) = 1
    /\ \E i \in DtPositions(s) :
          /\ i + Len(GeDate(D)) - 1 <= Len(s)
          /\ SubSeq(s, i, i + Len(GeDate(D)) - 1) = GeDate(D)


\* C33: with max_days_lookback = 1, a SQL whose only partition predicate is
\* dt >= date 'D' passes the partition check exactly when D is not earlier
\* than today - 1 day; D = today - 2 is rejected as a lookback too large.
C33_LookbackOneDay ==
    (ReachedPartitionCheck /\ opt.RequireDTFilter /\ opt.MaxDaysLookback = 1)
        => LET low == LowSQL
           IN  \A i \in DtPositions(low) :
                 LET D == IF i + 6 <= Len(low) THEN low[i + 6].v ELSE ""
                 IN  (ParseDate(D).ok /\ OnlyGeDate(low, D))
                       => /\ PassedPartitionCheck
                               <=> ~Before(ParseDate(D).t,
                                           SubDays(ParseDate(opt.TodayISO).t, 1))
                          /\ ParseDate(D).t = SubDays(ParseDate(opt.TodayISO).t, 2)
                               => verdict = LookbackError(D, 1)

\* C33 witness: the boundary date today - 1 accepted under a one-day lookback.
C33_Witness ==
    /\ Accepted /\ opt.RequireDTFilter /\ opt.MaxDaysLookback = 1
    /\ \E D \in LowerBoundStarts(LowSQL) :
          /\ OnlyGeDate(LowSQL, D)
          /\ ParseDate(D).ok
          /\ ParseDate(D).t = SubDays(ParseDate(opt.TodayISO).t, 1)

\* The other side of the boundary: today - 2 rejected as too large.
LookbackTwoDaysRejected ==
    /\ vpc = "done" /\ opt.RequireDTFilter /\ opt.MaxDaysLookback = 1
    /\ \E D \in LowerBoundStarts(LowSQL) :
          /\ OnlyGeDate(LowSQL, D)
          /\ ParseDate(D).ok
          /\ ParseDate(D).t = SubDays(ParseDate(opt.TodayISO).t, 2)
          /\ verdict = LookbackError(D, 1)


\* The start date is a date and not earlier than today - max_days.
StartWithinLookback(d) == ParseDate(d).ok /\ ~Before(ParseDate(d).t, MinAllowed)

\* C40: the partition check decides on a single match. If the SQL contains
\* a dt BETWEEN form, it passes exactly when the start date of the first
\* such form is within the lookback, whatever dt >= / dt > forms it also
\* contains; otherwise it is decided by the date of the first dt >= / dt >
\* form alone; later partition predicates do not affect the outcome.
C40_FirstMatchDecides ==
    (ReachedPartitionCheck /\ opt.RequireDTFilter)
        => LET low == LowSQL
               mb  == FindFrom(betweenRe, low, 1)
               mg  == FindFrom(geRe, low, 1)
           IN  IF mb.ok
               THEN PassedPartitionCheck <=> StartWithinLookback(mb.strs[1])
               ELSE mg.ok
                      => (PassedPartitionCheck <=> StartWithinLookback(mg.strs[1]))

\* C40 witness: a SQL that passes on its dt BETWEEN form although a dt >=
\* form written before it starts earlier than the lookback allows.
C40_Witness ==
    /\ PassedPartitionCheck /\ opt.RequireDTFilter
    /\ LET mb == FindAll(betweenRe, LowSQL)
           mg == FindAll(geRe, LowSQL)
       IN  /\ Len(mb) > 0 /\ Len(mg) > 0
           /\ mg[1].start < mb[1].start
           /\ StartWithinLookback(mb[1].strs[1])
           /\ ~StartWithinLookback(mg[1].strs[1])

\* A SQL that passes on its first dt >= form although a later one starts
\* earlier than the lookback allows.
LaterLowerBoundIgnored ==
    /\ vpc = "done" /\ PassedPartitionCheck /\ opt.RequireDTFilter
    /\ LET mg == FindAll(geRe, LowSQL)
       IN  /\ Len(mg) > 1 /\ FindAll(betweenRe, LowSQL) = <<>>
           /\ StartWithinLookback(mg[1].strs[1])
           /\ ~StartWithinLookback(mg[2].strs[1])


----------------------------------------------------------------------------
(* The model client on the text of a reply: handlers/summary.go:207-306 *)

\* The characters of a reply that matter to the client: braces, prose, and
\* the members of an object.
LBrace == [k |-> "lbrace"]
RBrace == [k |-> "rbrace"]
Prose  == [k |-> "prose"]
Member(name, value) == [k |-> "member", name |-> name, value |-> value]

ReplyTokens ==
    { LBrace, RBrace, Prose,
      Member("sql", <<SP>> \o SqlScalar),
      Member("sql", <<SP>>),
      Member("needs_clarification", TRUE),
      Member("needs_clarification", FALSE) }

\* The longest reply, in tokens.
MaxReplyLen == 4

Replies == UNION {[1..n -> ReplyTokens] : n \in 0..MaxReplyLen}

\* strings.Index(s, "{"): 0 when there is none.
RECURSIVE IndexLBrace(_, _)
IndexLBrace(s, i) ==
    IF i > Len(s) THEN 0
    ELSE IF s[i] = LBrace THEN i
    ELSE IndexLBrace(s, i + 1)

\* The scan of extractFirstJSONObject from position i at the given depth.
RECURSIVE ScanObject(_, _, _, _)
ScanObject(s, start, i, depth) ==
    IF i > Len(s) THEN <<>>
    ELSE IF s[i] = LBrace THEN ScanObject(s, start, i + 1, depth + 1)
    ELSE IF s[i] = RBrace
    THEN IF depth - 1 = 0 THEN SubSeq(s, start, i)
         ELSE ScanObject(s, start, i + 1, depth - 1)
    ELSE ScanObject(s, start, i + 1, depth)

\* extractFirstJSONObject: <<>> is the empty string.
extractFirstJSONObject(s) ==
    LET start == IndexLBrace(s, 1)
    IN  IF start = 0 THEN <<>> ELSE ScanObject(s, start, start, 0)

\* json.Unmarshal accepts the text: members only between the two braces.
IsJSONObject(js) ==
    /\ Len(js) >= 2
    /\ \A i \in 2..(Len(js) - 1) : js[i].k = "member"

\* The names of the members of an object; for a repeated name the last
\* member is the one decoded.
MemberNames(js) == {js[i].name : i \in 2..(Len(js) - 1)}

LastMember(js, name) ==
    js[CHOOSE i \in 2..(Len(js) - 1) :
           /\ js[i].name = name
           /\ \A j \in (i + 1)..(Len(js) - 1) : js[j].name # name].value

\* What InvokeBedrockClaude has in hand after InvokeModel returned the
\* reply text s (summary.go:252-271).
ReplyOutcome(s) ==
    LET js == extractFirstJSONObject(s)
    IN  IF js = <<>> THEN [kind |-> "nojson"]
        ELSE IF ~IsJSONObject(js) THEN [kind |-> "malformed"]
        ELSE [n \in MemberNames(js) \cup {"kind"} |->
                 IF n = "kind" THEN "json" ELSE LastMember(js, n)]

RInit ==
    /\ fx \in { [pc |-> "input", reply |-> s, err |-> "", res |-> <<>>] :
                  s \in Replies }
    /\ rq = <<>> /\ cache = <<>> /\ prov = <<>> /\ served = 0 /\ now = 0
    /\ sql = <<>> /\ opt = <<>> /\ verdict = "" /\ vpc = "off"
    /\ env = <<>> /\ cc = <<>> /\ aq = <<>>

\* InvokeBedrockClaude on a reply that InvokeModel delivered.
InvokeOnReply ==
    /\ fx.pc = "input"
    /\ LET r == InvokeBedrockClaude(ReplyOutcome(fx.reply))
       IN  fx' = [fx EXCEPT !.pc = "done", !.err = r.err, !.res = r.res]
    /\ UNCHANGED <<rq, cache, prov, served, now, env, cc, aq>>
    /\ UNCHANGED vvars

RNext == InvokeOnReply

SpecReply == RInit /\ [][RNext]_vars

\* The reply lacks a field the caller goes on to use: sql, unless the reply
\* asks for clarification.
LacksRequiredField(js) ==
    \/ "needs_clarification" \notin MemberNames(js)
    \/ "sql" \notin MemberNames(js)

\* C35: the model client returns an error and no LLMResult when the reply
\* contains no JSON object, contains malformed JSON or lacks required
\* fields; so every LLMResult it returns with needs_clarification = false
\* has a non-empty sql.
C35_ProtocolErrorOrSQL ==
    fx.pc = "done"
    => LET js == extractFirstJSONObject(fx.reply)
       IN  /\ (js = <<>> \/ ~IsJSONObject(js) \/ LacksRequiredField(js))
                => (fx.err # "" /\ fx.res = <<>>)
           /\ (fx.res # <<>> /\ ~fx.res[1].NeedsClarification)
                => fx.res[1].SQL # ""

\* A reply without a JSON object, or with malformed JSON, is an error and
\* yields no LLMResult.
NoObjectOrMalformedIsError ==
    fx.pc = "done"
    => LET js == extractFirstJSONObject(fx.reply)
       IN  (js = <<>> \/ ~IsJSONObject(js)) <=> (fx.err # "" /\ fx.res = <<>>)

\* The reply {} is decoded into an LLMResult of zero values.
EmptyObjectDecoded ==
    /\ fx.pc = "done" /\ fx.reply = <<LBrace, RBrace>>
    /\ fx.err = "" /\ fx.res = <<ZeroLLM>>


----------------------------------------------------------------------------
(* The date of a request: nlq.TodayISO and its uses in ask.go:87-158 *)

\* An instant of the wall clock: <<UTC date, UTC hour>>.
ClockDates == { <<2025, 12, 31>>, <<2026, 1, 18>>, <<2026, 1, 19>>, <<2026, 1, 31>> }
Instants == ClockDates \X (0..23)

\* The day after t.
NextDay(t) ==
    IF t[3] < DaysIn(t[1], t[2]) THEN <<t[1], t[2], t[3] + 1>>
    ELSE IF t[2] < 12 THEN <<t[1], t[2] + 1, 1>>
    ELSE <<t[1] + 1, 1, 1>>

\* One hour later.
HourLater(i) == IF i[2] < 23 THEN <<i[1], i[2] + 1>> ELSE <<NextDay(i[1]), 0>>

\* Asia/Ho_Chi_Minh is UTC+7 all year.
UTCOffsetHours == 7

\* The calendar date of the instant i in the zone offset hours east of UTC.
LocalDate(i, offset) == IF i[2] + offset >= 24 THEN NextDay(i[1]) ELSE i[1]

\* time.Now().UTC().Format("2006-01-02")
TodayISO(i) == FormatISO(i[1])

\* How many hours the clock may advance while one request is served.
MaxHours == 2

\* The request whose date is followed.
ClockReq(today) ==
    [IdleReq EXCEPT !.sub = Sub1, !.allowedShopIDs = <<ShopA>>,
                    !.body = AskRequest(QTotal, <<>>),
                    !.schemaText = CHOOSE s \in SchemaTexts : TRUE,
                    !.today = today]

TInit ==
    /\ fx \in { [pc |-> "start", clock |-> i, began |-> i, hours |-> 0,
                 today |-> "", key |-> <<>>, prompt |-> <<>>, vopt |-> <<>>] :
                  i \in Instants }
    /\ rq = <<>> /\ cache = <<>> /\ prov = <<>> /\ served = 0 /\ now = 0
    /\ sql = <<>> /\ opt = <<>> /\ verdict = "" /\ vpc = "off"
    /\ env = <<>> /\ cc = <<>> /\ aq = <<>>

TUnchanged ==
    /\ UNCHANGED <<rq, cache, prov, served, now, env, cc, aq>>
    /\ UNCHANGED vvars

\* The wall clock moves on while the request is served.
HourPasses ==
    /\ fx.pc # "done" /\ fx.hours < MaxHours
    /\ fx' = [fx EXCEPT !.clock = HourLater(@), !.hours = @ + 1]
    /\ TUnchanged

\* ask.go:94: today := nlq.TodayISO()
TakeToday ==
    /\ fx.pc = "start"
    /\ fx' = [fx EXCEPT !.pc = "key", !.today = TodayISO(fx.clock)]
    /\ TUnchanged

\* ask.go:100-107: the cache key.
MakeKey ==
    /\ fx.pc = "key"
    /\ fx' = [fx EXCEPT !.pc = "prompt", !.key = <<CacheKeyOf(ClockReq(fx.today))>>]
    /\ TUnchanged

\* ask.go:124-131: the prompt.
MakePrompt ==
    /\ fx.pc = "prompt"
    /\ fx' = [fx EXCEPT !.pc = "validate",
                        !.prompt = <<BuildPrompt(ClockReq(fx.today))>>]
    /\ TUnchanged

\* ask.go:153-158: the validator's options.
MakeOptions ==
    /\ fx.pc = "validate"
    /\ fx' = [fx EXCEPT !.pc = "done",
                        !.vopt = <<sqlValidate(ClockReq(fx.today))>>]
    /\ TUnchanged

TNext == HourPasses \/ TakeToday \/ MakeKey \/ MakePrompt \/ MakeOptions

SpecClock == TInit /\ [][TNext]_vars

\* One value of today serves the key, the prompt and the validator.
SameTodayEverywhere ==
    fx.pc = "done"
    => /\ fx.key[1].TodayISO = fx.today
       /\ fx.prompt[1].today = fx.today
       /\ fx.vopt[1].TodayISO = fx.today

\* C36: today is the calendar date, in the configured timezone (default
\* Asia/Ho_Chi_Minh), of the instant the request read the clock, and that
\* one value is used by the prompt, the validator's lookback bound and the
\* cache key.
C36_TodayInConfiguredZone ==
    (fx.pc = "done" /\ fx.hours = 0)
    => /\ fx.today = FormatISO(LocalDate(fx.began, UTCOffsetHours))
       /\ fx.prompt[1].timezone = Timezone
       /\ fx.key[1].TodayISO = fx.today
       /\ fx.prompt[1].today = fx.today
       /\ fx.vopt[1].TodayISO = fx.today

\* What the code computes: the UTC date of the read.
TodayIsUTCDate ==
    (fx.pc = "done" /\ fx.hours = 0) => fx.today = FormatISO(fx.began[1])

\* A request served across midnight keeps the date it read.
ServedAcrossMidnight ==
    /\ fx.pc = "done" /\ fx.clock[1] # fx.began[1]
    /\ fx.today # FormatISO(fx.clock[1])
    /\ fx.vopt[1].TodayISO = fx.today


----------------------------------------------------------------------------
(* Termination of a request and the budget of the repair loop *)

\* The budgets ExecuteWithSelfCorrection may be called with.
FixBudgets == (-1)..MaxFixAttempts

\* The requests followed: one that reaches the model, and two that are
\* answered at once.
LoopRequests ==
    { x \in Requests :
        /\ x.sub \in {Sub1, ""}
        /\ x.body \in { AskRequest(QTotal, <<>>), AskRequest(QBlank, <<>>) } }

InitLoop ==
    /\ rq = [r \in OneSlot |-> IdleReq]
    /\ cache = <<>>
    /\ prov = <<>>
    /\ served = 0
    /\ now = 0
    /\ sql = <<>> /\ opt = <<>> /\ verdict = "" /\ vpc = "off"
    /\ env \in { [schemas |-> SchemaTexts, requests |-> LoopRequests,
                  maxFixAttempts |-> n] : n \in FixBudgets }
    /\ cc = <<>> /\ aq = <<>> /\ fx = <<>>

\* Every external call returns, and Handle returns once it has its response.
CallsReturn ==
    \A r \in OneSlot :
        /\ WF_vars(TenancyReturn(r))
        /\ WF_vars(SchemaReturn(r))
        /\ WF_vars(CacheGetReturn(r))
        /\ WF_vars(Model0Return(r))
        /\ WF_vars(Exec0Return(r))
        /\ WF_vars(FixModelReturn(r))
        /\ WF_vars(FixExecReturn(r))
        /\ WF_vars(CachePutReturn(r))
        /\ WF_vars(Finish(r))

SpecLoop == InitLoop /\ [][Next]_vars /\ CallsReturn

\* The repair budget in force: a negative one counts as none.
Budget == IF env.maxFixAttempts < 0 THEN 0 ELSE env.maxFixAttempts

\* The turns of the repair loop an invocation has begun.
RepairIterations(r) == IF ModelCalls(r) = 0 THEN 0 ELSE ModelCalls(r) - 1

\* The outcome a response stands for.
IsTypedOutcome(resp) ==
    /\ resp.StatusCode = 200
    /\ "type" \in DOMAIN resp.Body
    /\ resp.Body.type \in {"result", "clarification", "sql_rejected", "athena_failed"}

IsErrorResponse(resp) ==
    /\ "error" \in DOMAIN resp.Body
    /\ \/ "type" \notin DOMAIN resp.Body /\ resp.StatusCode >= 400
       \/ "type" \in DOMAIN resp.Body /\ resp.Body.type = "no_shops"

OneOutcome(r) ==
    /\ Done(r) <=> rq[r].resp # <<>>
    /\ Done(r) => /\ Len(rq[r].resp) = 1
                  /\ IsTypedOutcome(rq[r].resp[1]) # IsErrorResponse(rq[r].resp[1])

WithinBudget(r) ==
    /\ RepairIterations(r) <= Budget
    /\ ModelCalls(r) <= Budget + 1

\* C31: every external call returning, every request terminates with
\* exactly one outcome among result, clarification, sql_rejected,
\* athena_failed or an immediate error response; the controller runs at
\* most max_fix_attempts repair iterations (a negative max_fix_attempts
\* behaves as 0) and at most max_fix_attempts + 1 model invocations.
C31_TerminatesWithinBudget ==
    /\ [](\A r \in Slots : OneOutcome(r) /\ WithinBudget(r))
    /\ \A r \in OneSlot : (rq[r].pc # "idle") ~> Done(r)

\* C31 witness: under a negative budget the one run of the executor fails
\* and the request ends as athena_failed after a single model invocation.
C31_Witness ==
    \E r \in Slots :
        /\ Done(r) /\ env.maxFixAttempts < 0
        /\ RespType(r) = "athena_failed"
        /\ ModelCalls(r) = 1 /\ ExecCalls(r) = 1

\* The whole budget spent: max_fix_attempts repair iterations, then failed.
BudgetSpent ==
    \E r \in Slots :
        /\ Done(r) /\ env.maxFixAttempts = MaxFixAttempts
        /\ RespType(r) = "athena_failed"
        /\ RepairIterations(r) = MaxFixAttempts

\* A request answered at once with an error.
AnsweredAtOnce ==
    \E r \in Slots :
        Done(r) /\ IsErrorResponse(rq[r].resp[1]) /\ ModelCalls(r) = 0


----------------------------------------------------------------------------
(* Two invocations at once on one cache key *)

TwoSlots == {"h1", "h2"}

InitPair ==
    /\ rq = [r \in TwoSlots |-> IdleReq]
    /\ cache = <<>>
    /\ prov = <<>>
    /\ served = 0
    /\ now = 0
    /\ sql = <<>> /\ opt = <<>> /\ verdict = "" /\ vpc = "off"
    /\ env = [schemas |-> SchemaTexts,
              requests |-> {x \in Requests :
                              x.sub = Sub1 /\ x.body = AskRequest(QTotal, <<>>)},
              maxFixAttempts |-> 1]
    /\ cc = <<>> /\ aq = <<>> /\ fx = <<>>

SpecPair == InitPair /\ [][Next]_vars


\* The payload an invocation handed to PutCached (ask.go:224-232).
PutPayload(r) == CachedResponseOf(rq[r].finalLLM[1], rq[r].athRes[1])

\* The invocation missed on its key, ran to a result and stored it.
MissedAndStored(r) ==
    /\ Done(r) /\ rq[r].ev # <<>>
    /\ GetOutcome(r) = "miss"
    /\ LastEvent(r).op = "PutCached" /\ LastEvent(r).out = "ok"

\* C34: two concurrent requests that miss on the same cache key and both
\* complete successfully put identical payloads under that key, so the
\* entry a later request reads does not depend on the order of the puts.
C34_ConcurrentPutsIdentical ==
    \A r1 \in Slots, r2 \in Slots :
        (/\ r1 # r2
         /\ MissedAndStored(r1) /\ MissedAndStored(r2)
         /\ ItemKey(KeyOf(r1)) = ItemKey(KeyOf(r2)))
            => /\ PutPayload(r1) = PutPayload(r2)
               /\ cache[ItemKey(KeyOf(r1))].Payload = MarshalCached(PutPayload(r1))

\* Both invocations stored under one key, and the entry is the payload of
\* one of them: the one whose put was applied last.
LastPutWins ==
    \A r1 \in Slots, r2 \in Slots :
        (/\ r1 # r2
         /\ MissedAndStored(r1) /\ MissedAndStored(r2)
         /\ ItemKey(KeyOf(r1)) = ItemKey(KeyOf(r2)))
            => cache[ItemKey(KeyOf(r1))].Payload
                  \in {MarshalCached(PutPayload(r1)), MarshalCached(PutPayload(r2))}

\* The same model reply on both sides, and still two different payloads:
\* the two runs of the executor are two query executions.
SameSQLDifferentPayload ==
    \E r1 \in Slots, r2 \in Slots :
        /\ r1 # r2
        /\ MissedAndStored(r1) /\ MissedAndStored(r2)
        /\ ItemKey(KeyOf(r1)) = ItemKey(KeyOf(r2))
        /\ PutPayload(r1).SQL = PutPayload(r2).SQL
        /\ PutPayload(r1).QueryID # PutPayload(r2).QueryID


----------------------------------------------------------------------------
(* What reaches the executor, and what is reported *)

\* ValidateSQL accepts the text under the options of the invocation.
AcceptedFor(r, text) ==
    /\ text \in DOMAIN Lex
    /\ Verdict[text, rq[r].allowedShopIDs, rq[r].today] = ""

\* The event before i is the validator accepting exactly the text.
ValidatedJustBefore(r, i, text) ==
    /\ i > 1
    /\ rq[r].ev[i - 1].op = "ValidateSQL"
    /\ rq[r].ev[i - 1].out = "ok"
    /\ rq[r].ev[i - 1].text = text

\* C37: every SQL string submitted to the executor, for the initial attempt
\* and for every repair attempt, is a string ValidateSQL accepted under the
\* request's ValidateOptions earlier in the same attempt; no string that
\* was rejected, never validated, or modified after validation is submitted.
C37_OnlyValidatedSQLSubmitted ==
    \A r \in Slots :
        /\ \A i \in DOMAIN rq[r].ev :
              rq[r].ev[i].op = "RunAthenaQuery"
                 => /\ ValidatedJustBefore(r, i, rq[r].ev[i].text)
                    /\ AcceptedFor(r, rq[r].ev[i].text)
        /\ rq[r].pc = "exec0"
              => /\ ValidatedJustBefore(r, Len(rq[r].ev) + 1, rq[r].cur.SQL)
                 /\ AcceptedFor(r, rq[r].cur.SQL)
        /\ rq[r].pc = "fixexec"
              => /\ ValidatedJustBefore(r, Len(rq[r].ev) + 1, rq[r].fixed[1].SQL)
                 /\ AcceptedFor(r, rq[r].fixed[1].SQL)

\* C37 witness: an initial run and a repair run of two different accepted
\* strings, the validator having rejected a reply in between.
C37_Witness ==
    \E r \in Slots :
        /\ Done(r) /\ RespType(r) = "result" /\ ExecCalls(r) = 2
        /\ EventsOf(r, "RunAthenaQuery")[1].text # EventsOf(r, "RunAthenaQuery")[2].text
        /\ \E i \in DOMAIN rq[r].ev :
              rq[r].ev[i].op = "ValidateSQL" /\ rq[r].ev[i].out = "rejected"


\* The SQL, trimmed, of the replies the model gave to the invocation.
ReplySQLs(r) == {SqlReplies(r)[i].llm[1].SQL : i \in DOMAIN SqlReplies(r)}

\* The SQL a response reports, if it reports one.
ReportsSQL(r) ==
    Done(r) /\ RespType(r) \in {"result", "sql_rejected", "athena_failed"}

ReportedSQL(r) ==
    CASE RespType(r) = "result"        -> Body(r).sql
      [] RespType(r) = "sql_rejected"  -> Body(r).model_sql
      [] RespType(r) = "athena_failed" -> Body(r).last_sql

Computed(r) == "cached" \notin DOMAIN Body(r)

\* The invocation has just stored its result.
StoredResult(r) ==
    /\ Done(r) /\ rq[r].ev # <<>>
    /\ LastEvent(r).op = "PutCached" /\ LastEvent(r).out = "ok"

StoredSQL(r) == UnmarshalCached(cache[ItemKey(KeyOf(r))].Payload).SQL

\* C39: the SQL reported to the caller is never a rewritten string: sql in
\* a result response, model_sql in sql_rejected, last_sql in athena_failed
\* and the sql stored in the cache are each exactly the trimmed SQL of one
\* model reply of the request; the controller's wrap reaches none of them.
C39_ReportedSQLIsAReply ==
    \A r \in Slots :
        /\ (ReportsSQL(r) /\ Computed(r)) => ReportedSQL(r) \in ReplySQLs(r)
        /\ StoredResult(r) => StoredSQL(r) \in ReplySQLs(r)

\* Whatever SQL is reported or stored is a string the model wrote: the
\* wrapped string SELECT * FROM (...) WHERE dt >= ... is none of them.
NoWrappedSQLReported ==
    \A r \in Slots :
        /\ ReportsSQL(r) => ReportedSQL(r) \in DOMAIN Lex
        /\ (ReportsSQL(r) /\ Computed(r) /\ ReportedSQL(r) # "")
              => ReportedSQL(r) \in ReplySQLs(r)
        /\ StoredResult(r) => StoredSQL(r) \in ReplySQLs(r) \ {""}
        /\ (ReportsSQL(r) /\ RespType(r) # "athena_failed" /\ Computed(r))
              => ReportedSQL(r) \in ReplySQLs(r)

\* The wrap did trigger on the way to a reported result.
WrapTriggered ==
    \E r \in Slots :
        /\ Done(r) /\ RespType(r) = "result" /\ ExecCalls(r) = 2
        /\ rq[r].cur.SQL \notin DOMAIN Lex


----------------------------------------------------------------------------
(* The allowlist of a request while shops are being withdrawn *)

\* One caller asking for all shops, for one shop in another spelling, and
\* for a shop of another tenant.
TenancyRequests ==
    { x \in Requests :
        /\ x.sub = Sub1
        /\ x.body \in { AskRequest(QTotal, <<>>),
                        AskRequest(QTotal, <<"A.myshopify.com">>),
                        AskRequest(QTotal, <<ShopC>>) } }

InitTenancy ==
    /\ rq = [r \in OneSlot |-> IdleReq]
    /\ cache = <<>>
    /\ prov = <<>>
    /\ served = 0
    /\ now = 0
    /\ sql = <<>> /\ opt = <<>> /\ verdict = "" /\ vpc = "off"
    /\ env = [schemas |-> SchemaTexts, requests |-> TenancyRequests,
              maxFixAttempts |-> 1]
    /\ cc = <<>> /\ aq = <<>>
    /\ fx = [revoked |-> {}]

\* A shop is disconnected from its users: its item leaves the table.
Revoke ==
    /\ \E s \in Revocable \ fx.revoked :
          fx' = [fx EXCEPT !.revoked = @ \cup {s}]
    /\ UNCHANGED <<rq, cache, prov, served, now, env, cc, aq>>
    /\ UNCHANGED vvars

NextTenancy == Next \/ Revoke

SpecTenancy == InitTenancy /\ [][NextTenancy]_vars

\* Every shop of the list is, letter case aside, one of the shops.
AllAmong(list, shops) ==
    \A i \in DOMAIN list :
        ToLower(list[i]) \in {ToLower(shops[j]) : j \in DOMAIN shops}

\* C38: in every request that reaches the cache lookup, the allowlist used
\* for the cache key, the prompt and the validator is the effective
\* allowlist of the request: it is non-empty and each of its elements
\* matches, case-insensitively, a shop the tenancy resolver returned for
\* the caller in this request; so a cached result is served only for shops
\* the caller may read at the time of the hit.
C38_EffectiveAllowlistEverywhere ==
    \A r \in Slots :
        HasKey(r)
        => LET A == rq[r].allowedShopIDs
           IN  /\ A # <<>>
               /\ A = intersectAcc(rq[r].body.ShopIDs,
                         {ToLower(TrimSpace(rq[r].resolved[i])) :
                             i \in DOMAIN rq[r].resolved}, {})
                    \/ (rq[r].body.ShopIDs = <<>> /\ A = rq[r].resolved)
               /\ AllAmong(A, rq[r].resolved)
               /\ KeyOf(r).Shops = A
               /\ rq[r].prompt.kind # "none" => rq[r].prompt.shops = JoinStr(A, ", ")
               /\ \A i \in DOMAIN rq[r].ev :
                     rq[r].ev[i].op = "ValidateSQL"
                        => (rq[r].ev[i].out = "ok"
                              <=> Verdict[rq[r].ev[i].text, A, rq[r].today] = "")
               /\ GetOutcome(r) = "hit"
                    => /\ ItemKey(KeyOf(r)) \in DOMAIN prov
                       /\ AllAmong(prov[ItemKey(KeyOf(r))].key.Shops, rq[r].resolved)

\* C38 witness: a hit served after a shop was withdrawn, for the one shop
\* the caller still has, asked for in another spelling.
C38_Witness ==
    \E r \in Slots :
        /\ HasKey(r) /\ GetOutcome(r) = "hit"
        /\ fx.revoked = {ShopB}
        /\ rq[r].resolved = <<ShopA>>
        /\ rq[r].allowedShopIDs = <<"A.myshopify.com">>

\* After the withdrawal the question for all shops has a new key: the entry
\* stored for both shops is not served.
RevocationChangesKey ==
    \E r \in Slots :
        /\ HasKey(r) /\ GetOutcome(r) = "miss"
        /\ rq[r].body.ShopIDs = <<>> /\ rq[r].resolved = <<ShopA>>
        /\ \E k \in DOMAIN prov : prov[k].key.Shops = <<ShopA, ShopB>>

=============================================================================
